---- MODULE Spec2Model ----
(***************************************************************************)
(* Cithun: permission evaluation (service.py), the chmod-style executor    *)
(* (function.py, async_/function.py) and the store they work on            *)
(* (store.py), as a state machine over one store.                          *)
(*                                                                         *)
(* Strings that the code takes apart (resource paths and ids) are          *)
(* sequences of one-character strings, so that strip / split / rpartition  *)
(* are computed and not assumed: "a.b" is <<"a", ".", "b">>.               *)
(* Python's None and the empty string are both <<>> where the code only    *)
(* tests truthiness (parent_id).                                           *)
(***************************************************************************)
EXTENDS Integers, Sequences, FiniteSets, TLC

VARIABLES resources, users, roles, acls, strategies, last

vars == <<resources, users, roles, acls, strategies, last>>

-----------------------------------------------------------------------------
(* Permission bits (model.py, class Permission(IntFlag)).                   *)

NONE == 0
AVAILABLE == 1
MODIFY == 2
VISIT == 4

Masks == 0..7

BitSet(m) == {b \in {AVAILABLE, MODIFY, VISIT} : (m \div b) % 2 = 1}

MaskOf(S) ==
    (IF AVAILABLE \in S THEN AVAILABLE ELSE 0)
    + (IF MODIFY \in S THEN MODIFY ELSE 0)
    + (IF VISIT \in S THEN VISIT ELSE 0)

\* a | b
BitOr(a, b) == MaskOf(BitSet(a) \cup BitSet(b))

\* a & b
BitAnd(a, b) == MaskOf(BitSet(a) \cap BitSet(b))

\* a & ~b
BitAndNot(a, b) == MaskOf(BitSet(a) \ BitSet(b))

\* (mask & required) == required
HasAll(mask, required) == BitAnd(mask, required) = required

-----------------------------------------------------------------------------
(* Strings as character sequences.                                          *)

NODE_SEPARATOR == "."

None == <<>>

\* inherit_mode = None, among the InheritMode values
NoMode == "None"

Range(s) == {s[i] : i \in 1..Len(s)}

Reverse(s) == [i \in 1..Len(s) |-> s[Len(s) + 1 - i]]

RECURSIVE LStrip(_)
LStrip(s) ==
    IF s # <<>> /\ Head(s) = NODE_SEPARATOR THEN LStrip(Tail(s)) ELSE s

\* str.strip(Config.NODE_SEPARATOR)
Strip(s) == Reverse(LStrip(Reverse(LStrip(s))))

\* str.split(Config.NODE_SEPARATOR): the parts, empty ones included
RECURSIVE SplitFrom(_, _, _)
SplitFrom(s, i, cur) ==
    IF i > Len(s) THEN <<cur>>
    ELSE IF s[i] = NODE_SEPARATOR THEN <<cur>> \o SplitFrom(s, i + 1, <<>>)
    ELSE SplitFrom(s, i + 1, Append(cur, s[i]))

Split(s) == SplitFrom(s, 1, <<>>)

\* [p for p in parts if p]
RECURSIVE NonEmpty(_)
NonEmpty(parts) ==
    IF parts = <<>> THEN <<>>
    ELSE IF Head(parts) = <<>> THEN NonEmpty(Tail(parts))
    ELSE <<Head(parts)>> \o NonEmpty(Tail(parts))

\* path.rpartition(sep)[0] when sep occurs in path
LastSep(s) == CHOOSE i \in 1..Len(s) :
    s[i] = NODE_SEPARATOR /\ \A j \in (i + 1)..Len(s) : s[j] # NODE_SEPARATOR

RPartitionHead(s) == SubSeq(s, 1, LastSep(s) - 1)

-----------------------------------------------------------------------------
(* Permission expressions (model.py, Permission._missing_, __format__ and   *)
(* parse).                                                                  *)

DecimalDigits == {"0", "1", "2", "3", "4", "5", "6", "7", "8", "9"}

\* int(c) for a digit
DigitValue(c) ==
    CASE c = "0" -> 0 [] c = "1" -> 1 [] c = "2" -> 2 [] c = "3" -> 3 [] c = "4" -> 4
      [] c = "5" -> 5 [] c = "6" -> 6 [] c = "7" -> 7 [] c = "8" -> 8 [] c = "9" -> 9

\* str.lower() on the letters of the expressions
LowerOf(c) ==
    CASE c = "A" -> "a" [] c = "D" -> "d" [] c = "V" -> "v" [] c = "M" -> "m"
      [] c = "R" -> "r" [] c = "W" -> "w" [] c = "X" -> "x" [] OTHER -> c

RECURSIVE LStripSpaces(_)
LStripSpaces(s) == IF s # <<>> /\ Head(s) = " " THEN LStripSpaces(Tail(s)) ELSE s

\* expr.strip().lower()
Normalised(expr) ==
    LET t == Reverse(LStripSpaces(Reverse(LStripSpaces(expr))))
    IN [i \in 1..Len(t) |-> LowerOf(t[i])]

\* the characters Permission._missing_ knows
MaskGlyphs == {"a", "x", "m", "w", "v", "r", "*", "-"}

\* the bits one character stands for in Permission._missing_
GlyphBits(c) ==
    IF c \in {"a", "x"} THEN {AVAILABLE}
    ELSE IF c \in {"m", "w"} THEN {MODIFY}
    ELSE IF c \in {"v", "r"} THEN {VISIT}
    ELSE IF c = "*" THEN {AVAILABLE, MODIFY, VISIT}
    ELSE {}

\* what parse returns or raises
Parsed(err, mask, mode, deny) == [err |-> err, mask |-> mask, mode |-> mode, deny |-> deny]

\* cls(flags) for a string: Permission._missing_
FromGlyphs(flags, mode, deny) ==
    IF \E i \in 1..Len(flags) : flags[i] \notin MaskGlyphs
    THEN Parsed("ValueError", 0, "", FALSE)
    ELSE Parsed("", MaskOf(UNION {GlyphBits(flags[i]) : i \in 1..Len(flags)}), mode, deny)

\* cls(int(flags)) if flags.isdigit() else cls(flags), flags of one character
FromFlags(flags, mode, deny) ==
    IF Len(flags) = 1 /\ flags[1] \in DecimalDigits
    THEN Parsed("", DigitValue(flags[1]), mode, deny)
    ELSE FromGlyphs(flags, mode, deny)

\* the group flags of the expression of parse: (?:[*0-7]|[vmarwx]+)
FlagsMatch(f) ==
    \/ Len(f) = 1 /\ f[1] \in {"*", "0", "1", "2", "3", "4", "5", "6", "7"}
    \/ Len(f) >= 1 /\ \A i \in 1..Len(f) : f[i] \in {"v", "m", "a", "r", "w", "x"}

\* re.fullmatch with t characters for the group target (0 or 1) and o for op
GroupsMatch(e, t, o) ==
    /\ Len(e) > t + o
    /\ t = 1 => e[1] \in {"a", "d"}
    /\ o = 1 => e[t + 1] \in {"=", "+", "-"}
    /\ FlagsMatch(SubSeq(e, t + o + 1, Len(e)))

\* the return of parse for the match with t and o
FromGroups(e, t, o) ==
    FromFlags(SubSeq(e, t + o + 1, Len(e)),
              IF o = 1 THEN e[t + 1] ELSE "=",
              t = 1 /\ e[1] = "d")

\* parse on the normalised expression; the optional groups take a character
\* where they can and give it back where the rest does not match
ParseNormalised(e) ==
    IF e = <<>> THEN Parsed("ValueError", 0, "", FALSE)
    ELSE IF Len(e) = 1 THEN FromFlags(e, "=", FALSE)
    ELSE IF GroupsMatch(e, 1, 1) THEN FromGroups(e, 1, 1)
    ELSE IF GroupsMatch(e, 1, 0) THEN FromGroups(e, 1, 0)
    ELSE IF GroupsMatch(e, 0, 1) THEN FromGroups(e, 0, 1)
    ELSE IF GroupsMatch(e, 0, 0) THEN FromGroups(e, 0, 0)
    ELSE Parsed("ValueError", 0, "", FALSE)

\* Permission.parse(expr)
parse(expr) == ParseNormalised(Normalised(expr))

\* format(mask, '#'): v, m, a, each '-' when the bit is missing
Rendering(mask) ==
    <<IF VISIT \in BitSet(mask) THEN "v" ELSE "-",
      IF MODIFY \in BitSet(mask) THEN "m" ELSE "-",
      IF AVAILABLE \in BitSet(mask) THEN "a" ELSE "-">>

-----------------------------------------------------------------------------
(* The store (store.py, class BaseStore).  A store value is a record of     *)
(* the collections the evaluation reads and of the registered strategies;   *)
(* the state variables hold the current one.  Its flavour field says which  *)
(* of the two surfaces, the synchronous one (service.py, function.py) or    *)
(* the task-based one (async_/service.py, async_/function.py), works on it. *)

USER == "USER"
ROLE == "ROLE"

Flavours == {"sync", "async"}

StoreOf(flavour) ==
    [resources |-> resources, users |-> users, roles |-> roles, acls |-> acls,
     strategies |-> strategies, flavour |-> flavour]

Store == StoreOf("sync")

\* self.resources.get(rid): the index of the node in insertion order, 0 if absent
ResIndex(st, rid) ==
    IF \E i \in 1..Len(st.resources) : st.resources[i].id = rid
    THEN CHOOSE i \in 1..Len(st.resources) : st.resources[i].id = rid
    ELSE 0

HasResource(st, rid) == ResIndex(st, rid) # 0

get_resource(st, rid) == st.resources[ResIndex(st, rid)]

ResourceIds(st) == {st.resources[i].id : i \in 1..Len(st.resources)}

RECURSIVE get_resource_chain(_, _)
get_resource_chain(st, rid) ==
    IF ~HasResource(st, rid) THEN <<>>
    ELSE LET current == get_resource(st, rid) IN
         IF current.parent_id = None THEN <<current>>
         ELSE <<current>> \o get_resource_chain(st, current.parent_id)

\* One round of define's loop: parts[i], below current_parent_id.
RECURSIVE DefineFrom(_, _, _, _, _, _)
\* One round of define's loop giving a missing ancestor the mode and the type
\* of the terminal node
DefineFromAlike(res, parts, i, current_parent_id, inherit_mode, type_) ==
    IF i > Len(parts) THEN res
    ELSE
      LET part == parts[i]
          current_id == IF current_parent_id # None
                        THEN current_parent_id \o <<NODE_SEPARATOR>> \o part
                        ELSE part
          is_last == (i = Len(parts))
          k == ResIndex([resources |-> res], current_id)
          res1 ==
            IF k = 0 THEN
              Append(res, [id |-> current_id, name |-> part,
                           parent_id |-> current_parent_id,
                           inherit_mode |-> IF inherit_mode # NoMode
                                            THEN inherit_mode ELSE "OVERRIDE",
                           type |-> type_])
            ELSE IF is_last THEN
              [res EXCEPT ![k].inherit_mode =
                              IF inherit_mode # NoMode THEN inherit_mode ELSE @,
                          ![k].type = type_]
            ELSE
              [res EXCEPT ![k].inherit_mode = "MERGE", ![k].type = "DIR"]
      IN DefineFrom(res1, parts, i + 1, current_id, inherit_mode, type_)

DefineFrom(res, parts, i, current_parent_id, inherit_mode, type_) ==
    IF i > Len(parts) THEN res
    ELSE
      LET part == parts[i]
          current_id == IF current_parent_id # None
                        THEN current_parent_id \o <<NODE_SEPARATOR>> \o part
                        ELSE part
          is_last == (i = Len(parts))
          k == ResIndex([resources |-> res], current_id)
          res1 ==
            IF k = 0 THEN
              Append(res, [id |-> current_id, name |-> part,
                           parent_id |-> current_parent_id,
                           inherit_mode |-> IF is_last
                                            THEN (IF inherit_mode # NoMode
                                                  THEN inherit_mode ELSE "OVERRIDE")
                                            ELSE "MERGE",
                           type |-> IF is_last THEN type_ ELSE "DIR"])
            ELSE IF is_last THEN
              [res EXCEPT ![k].inherit_mode =
                              IF inherit_mode # NoMode THEN inherit_mode ELSE @,
                          ![k].type = type_]
            ELSE
              [res EXCEPT ![k].inherit_mode = "MERGE", ![k].type = "DIR"]
      IN DefineFrom(res1, parts, i + 1, current_id, inherit_mode, type_)

DefineParts(path) == NonEmpty(Split(Strip(path)))

\* BaseStore.define: the store after the call (path has at least one part)
define(st, path, inherit_mode, type_) ==
    [st EXCEPT !.resources =
        DefineFrom(st.resources, DefineParts(path), 1, None, inherit_mode, type_)]

\* the node define returns: the terminal one
DefinedId(path) ==
    LET parts == DefineParts(path)
        join[i \in 1..Len(parts)] ==
            IF i = 1 THEN parts[1] ELSE join[i - 1] \o <<NODE_SEPARATOR>> \o parts[i]
    IN join[Len(parts)]

\* match_resources(pattern): the nodes whose stripped id the predicate accepts,
\* in insertion order; the predicate is given by the set of ids it accepts
match_resources(st, accepted) ==
    SelectSeq(st.resources, LAMBDA r : Strip(r.id) \in accepted)

\* a path with one of these is a glob pattern (function.py 290)
GlobChars == {"*", "?", "["}

IsGlob(path) == Range(path) \cap GlobChars # {}

\* fnmatch on a character class: the index of the ']' closing the class that
\* pat opens with (a ']' right after '[' or '[!' belongs to the class), 0 when
\* none closes it and '[' stands for itself
ClassEnd(pat) ==
    LET start == IF Len(pat) >= 2 /\ pat[2] = "!" THEN 3 ELSE 2
        from == IF Len(pat) >= start /\ pat[start] = "]" THEN start + 1 ELSE start
        ends == {j \in from..Len(pat) : pat[j] = "]"}
    IN IF ends = {} THEN 0 ELSE CHOOSE j \in ends : \A k \in ends : j <= k

\* c is in the class pat opens with: the characters listed, or with '!' the
\* others (a class of single characters, no range)
InClass(c, pat) ==
    IF pat[2] = "!"
    THEN c \notin {pat[j] : j \in 3..(ClassEnd(pat) - 1)}
    ELSE c \in {pat[j] : j \in 2..(ClassEnd(pat) - 1)}

RECURSIVE FnMatch(_, _)
\* fnmatch with '*' stopping at a separator, as a shell does on path names
FnMatchSegment(name, pat) ==
    IF pat = <<>> THEN name = <<>>
    ELSE IF Head(pat) = "*"
    THEN \/ FnMatch(name, Tail(pat))
         \/ name # <<>> /\ Head(name) # NODE_SEPARATOR /\ FnMatch(Tail(name), pat)
    ELSE IF name = <<>> THEN FALSE
    ELSE IF Head(pat) = "?" THEN FnMatch(Tail(name), Tail(pat))
    ELSE IF Head(pat) = "[" /\ ClassEnd(pat) # 0
    THEN /\ InClass(Head(name), pat)
         /\ FnMatch(Tail(name), SubSeq(pat, ClassEnd(pat) + 1, Len(pat)))
    ELSE Head(pat) = Head(name) /\ FnMatch(Tail(name), Tail(pat))

\* fnmatch.fnmatch(name, pat): the whole name against the whole pattern, '*'
\* any run of characters, '?' any one, '[...]' one of a class
FnMatch(name, pat) ==
    IF pat = <<>> THEN name = <<>>
    ELSE IF Head(pat) = "*"
    THEN \/ FnMatch(name, Tail(pat))
         \/ name # <<>> /\ FnMatch(Tail(name), pat)
    ELSE IF name = <<>> THEN FALSE
    ELSE IF Head(pat) = "?" THEN FnMatch(Tail(name), Tail(pat))
    ELSE IF Head(pat) = "[" /\ ClassEnd(pat) # 0
    THEN /\ InClass(Head(name), pat)
         /\ FnMatch(Tail(name), SubSeq(pat, ClassEnd(pat) + 1, Len(pat)))
    ELSE Head(pat) = Head(name) /\ FnMatch(Tail(name), Tail(pat))

\* glob_resources(pattern): the nodes whose stripped id the stripped pattern
\* matches, in insertion order
glob_resources(st, pattern) ==
    SelectSeq(st.resources, LAMBDA r : FnMatch(Strip(r.id), Strip(pattern)))

IsPrimaryFor(acl, subject, resource_id) ==
    /\ acl.subject_type = subject.type
    /\ acl.subject_id = subject.id
    /\ acl.resource_id = resource_id

\* get_primary_acl: the index of the first matching entry, 0 for None
get_primary_acl(st, subject, resource_id) ==
    IF \E i \in 1..Len(st.acls) : IsPrimaryFor(st.acls[i], subject, resource_id)
    THEN CHOOSE i \in 1..Len(st.acls) :
            /\ IsPrimaryFor(st.acls[i], subject, resource_id)
            /\ \A j \in 1..(i - 1) : ~IsPrimaryFor(st.acls[j], subject, resource_id)
    ELSE 0

\* iter_acls_for_resource: the indices of the entries of the resource, in order
iter_acls_for_resource(st, resource_id) ==
    SelectSeq([i \in 1..Len(st.acls) |-> i],
              LAMBDA i : st.acls[i].resource_id = resource_id)

AclEntry(subject, resource_id, allow_mask, deny_mask) ==
    [subject_type |-> subject.type, subject_id |-> subject.id,
     resource_id |-> resource_id, allow_mask |-> allow_mask,
     deny_mask |-> deny_mask, dependencies |-> <<>>]

\* BaseStore.assign on a single path (no '*', '?' or '[' in it)
assign(st, subject, resource_path, allow_mask, deny_mask) ==
    LET path == Strip(resource_path)
        st1 == define(st, path, NoMode, "GENERIC")
    IN [st1 EXCEPT !.acls =
          Append(@, AclEntry(subject, DefinedId(path), allow_mask, deny_mask))]

\* BaseStore.assign with a callable pattern
RECURSIVE AssignMatched(_, _, _, _, _, _)
AssignMatched(st, matched, i, subject, allow_mask, deny_mask) ==
    IF i > Len(matched) THEN st
    ELSE IF get_primary_acl(st, subject, matched[i].id) # 0
    THEN AssignMatched(st, matched, i + 1, subject, allow_mask, deny_mask)
    ELSE AssignMatched(
           [st EXCEPT !.acls =
              Append(@, AclEntry(subject, matched[i].id, allow_mask, deny_mask))],
           matched, i + 1, subject, allow_mask, deny_mask)

assign_matching(st, subject, accepted, allow_mask, deny_mask) ==
    AssignMatched(st, match_resources(st, accepted), 1, subject, allow_mask, deny_mask)

\* BaseStore.depend, the target's primary ACL existing
depend(st, target_subject, target_resource_id, dep_subject, dep_resource_path, required_mask) ==
    LET k == get_primary_acl(st, target_subject, target_resource_id)
        st1 == define(st, dep_resource_path, NoMode, "GENERIC")
        dep == [subject_type |-> dep_subject.type, subject_id |-> dep_subject.id,
                resource_id |-> DefinedId(dep_resource_path),
                required_mask |-> required_mask]
    IN [st1 EXCEPT !.acls[k].dependencies = Append(@, dep)]

\* BaseStore.inherit (child and parent are in the tables already)
inherit(st, child, parent) ==
    IF child.type = ROLE
    THEN IF parent.id \in Range(st.roles[child.id]) THEN st
         ELSE [st EXCEPT !.roles[child.id] = Append(@, parent.id)]
    ELSE IF parent.id \in Range(st.users[child.id]) THEN st
         ELSE [st EXCEPT !.users[child.id] = Append(@, parent.id)]

\* the levels of the track the application builds with create_track and
\* extend_track (tests/track.py): role ids, lowest level first
TrackLevels == <<"g", "h">>

\* the exception of set_user_track_level, "" for none
TrackLevelError(levels, level_index) ==
    IF levels = <<>> \/ level_index >= Len(levels) THEN "ValueError" ELSE ""

\* set_user_track_level adding the level's role to the roles the user holds
SetUserTrackLevelKeeps(st, user_id, levels, level_index) ==
    IF levels = <<>> \/ level_index >= Len(levels) \/ level_index < 0 THEN st
    ELSE IF levels[level_index + 1] \in Range(st.users[user_id]) THEN st
    ELSE [st EXCEPT !.users[user_id] = Append(@, levels[level_index + 1])]

\* BaseStore.set_user_track_level; level_index counts from 0, a negative one
\* takes the user off the track, ValueError leaves the store as it was
set_user_track_level(st, user_id, levels, level_index) ==
    IF levels = <<>> \/ level_index >= Len(levels) THEN st
    ELSE LET kept == SelectSeq(st.users[user_id], LAMBDA rid : rid \notin Range(levels))
         IN IF level_index < 0 THEN [st EXCEPT !.users[user_id] = kept]
            ELSE IF levels[level_index + 1] \in Range(kept)
            THEN [st EXCEPT !.users[user_id] = kept]
            ELSE [st EXCEPT !.users[user_id] = Append(kept, levels[level_index + 1])]

\* the index (from 0) of the first level whose role the user holds, -1 for none
CurrentLevelIndex(st, user_id, levels) ==
    IF \E i \in 1..Len(levels) : levels[i] \in Range(st.users[user_id])
    THEN (CHOOSE i \in 1..Len(levels) :
            /\ levels[i] \in Range(st.users[user_id])
            /\ \A j \in 1..(i - 1) : levels[j] \notin Range(st.users[user_id])) - 1
    ELSE 0 - 1

\* BaseStore.get_user_track_level: the index (from 0) of the level returned,
\* NoLevel for None
NoLevel == 0 - 1

get_user_track_level(st, user_id, levels) ==
    IF \A i \in 1..Len(levels) : levels[i] \notin Range(st.users[user_id]) THEN NoLevel
    ELSE (CHOOSE i \in 1..Len(levels) :
            /\ levels[i] \in Range(st.users[user_id])
            /\ \A j \in 1..(i - 1) : levels[j] \notin Range(st.users[user_id])) - 1

Min(a, b) == IF a <= b THEN a ELSE b

Max(a, b) == IF a >= b THEN a ELSE b

\* BaseStore.promote_track
promote_track(st, user_id, levels, step) ==
    IF levels = <<>> THEN st
    ELSE IF CurrentLevelIndex(st, user_id, levels) = 0 - 1
    THEN set_user_track_level(st, user_id, levels, 0)
    ELSE set_user_track_level(st, user_id, levels,
                              Min(CurrentLevelIndex(st, user_id, levels) + step,
                                  Len(levels) - 1))

\* the level index promote_track returns, NoLevel for None
promoted_index(st, user_id, levels, step) ==
    IF levels = <<>> THEN NoLevel
    ELSE IF CurrentLevelIndex(st, user_id, levels) = 0 - 1 THEN 0
    ELSE Min(CurrentLevelIndex(st, user_id, levels) + step, Len(levels) - 1)

\* the level index demote_track returns, NoLevel for None
demoted_index(st, user_id, levels, step) ==
    IF levels = <<>> \/ CurrentLevelIndex(st, user_id, levels) = 0 - 1 THEN NoLevel
    ELSE Max(CurrentLevelIndex(st, user_id, levels) - step, 0)

\* BaseStore.demote_track
demote_track(st, user_id, levels, step) ==
    IF demoted_index(st, user_id, levels, step) = NoLevel THEN st
    ELSE set_user_track_level(st, user_id, levels,
                              demoted_index(st, user_id, levels, step))

-----------------------------------------------------------------------------
(* Role expansion (service.py, expand_roles).                               *)

RECURSIVE ExpandDfs(_, _, _)
RECURSIVE ExpandEach(_, _, _, _)

\* dfs(rid) keeping an id the role table does not hold
ExpandDfsKeepsAbsent(role_table, rid, acc) ==
    IF rid \in acc.visited THEN acc
    ELSE IF rid \notin DOMAIN role_table
    THEN [acc EXCEPT !.visited = @ \cup {rid}, !.result = @ \cup {rid}]
    ELSE ExpandEach(role_table, role_table[rid], 1,
                    [acc EXCEPT !.visited = @ \cup {rid}, !.result = @ \cup {rid}])

\* dfs(rid): acc holds the closure's visited and result sets
ExpandDfs(role_table, rid, acc) ==
    IF rid \in acc.visited THEN acc
    ELSE LET acc1 == [acc EXCEPT !.visited = @ \cup {rid}] IN
         IF rid \notin DOMAIN role_table THEN acc1
         ELSE ExpandEach(role_table, role_table[rid], 1,
                         [acc1 EXCEPT !.result = @ \cup {rid}])

ExpandEach(role_table, ids, i, acc) ==
    IF i > Len(ids) THEN acc
    ELSE ExpandEach(role_table, ids, i + 1, ExpandDfs(role_table, ids[i], acc))

expand_roles(role_ids, role_table) ==
    ExpandEach(role_table, role_ids, 1, [visited |-> {}, result |-> {}]).result

-----------------------------------------------------------------------------
(* Strategies (strategy.py).  A strategy is a callable the application      *)
(* registers; the ones the model can register are:                          *)
(*   owner_all    returns VISIT|MODIFY|AVAILABLE when the context says      *)
(*                "owner", else the running mask (tests/function.py,        *)
(*                auth_handler)                                             *)
(*   drop_modify  clears MODIFY from the running mask                       *)
(*   grant_visit  adds VISIT to the running mask                            *)
(*   as_role_g    adds what permission_lookup gives for role "g"            *)
(*   as_role_g_plain   adds what permission_lookup gives for role "g" when  *)
(*                called with no context, lookup(g, None)                   *)

Contexts == {"none", "owner"}

StrategyKinds == {"owner_all", "drop_modify", "grant_visit", "as_role_g"}

-----------------------------------------------------------------------------
(* The evaluator (service.py, class PermissionService).                     *)
(* Every operator returns the outcome of the Python call together with the  *)
(* visited list and the cache as the call leaves them:                      *)
(*   err      "" or the exception raised                                    *)
(*   mask     the returned mask (ok: the returned bool; deny: node_deny     *)
(*            beside node_allow)                                            *)
(*   cycle    DependencyCycleError.cycle_nodes                              *)
(* depth bounds the nesting of _calc_permissions_for_subject calls, as the  *)
(* interpreter's recursion limit does.                                      *)

RecursionLimit == 12

Returned(mask, visited, cache) ==
    [err |-> "", mask |-> mask, deny |-> 0, ok |-> TRUE, cycle |-> <<>>,
     visited |-> visited, cache |-> cache]

Raised(err, cycle, visited, cache) ==
    [err |-> err, mask |-> 0, deny |-> 0, ok |-> FALSE, cycle |-> cycle,
     visited |-> visited, cache |-> cache]

CacheKey(subject_type, subject_id, resource_id) ==
    <<subject_type, subject_id, resource_id>>

\* visited.index(key) answering the bottom of the stack
IndexOfBottom(visited, key) == 1

\* visited.index(key)
IndexOf(visited, key) == CHOOSE i \in 1..Len(visited) :
    visited[i] = key /\ \A j \in 1..(i - 1) : visited[j] # key

\* relevant_subjects without the expansion: the subject and the roles it names
RelevantSubjectsDirect(st, subject_type, subject_id) ==
    IF subject_type = USER
    THEN {<<USER, subject_id>>} \cup {<<ROLE, rid>> : rid \in Range(st.users[subject_id])}
    ELSE {<<ROLE, subject_id>>}

\* relevant_subjects of _calc_permissions_for_subject
RelevantSubjects(st, subject_type, subject_id) ==
    IF subject_type = USER
    THEN {<<USER, subject_id>>}
         \cup {<<ROLE, rid>> : rid \in expand_roles(st.users[subject_id], st.roles)}
    ELSE {<<ROLE, rid>> : rid \in expand_roles(<<subject_id>>, st.roles)}

\* FoldStep with the deny removed inside the MERGE and OVERRIDE branches only
FoldStepDenyInBranches(inherit_mode, effective_mask, node_allow, node_deny) ==
    IF inherit_mode = "MERGE"
    THEN BitAndNot(BitOr(effective_mask, node_allow), node_deny)
    ELSE IF inherit_mode = "OVERRIDE" THEN BitAndNot(node_allow, node_deny)
    ELSE effective_mask

\* FoldStep with INHERIT adding the node's allow bits as MERGE does
FoldStepInheritMerges(inherit_mode, effective_mask, node_allow, node_deny) ==
    LET merged == IF inherit_mode = "OVERRIDE" THEN node_allow
                  ELSE BitOr(effective_mask, node_allow)
    IN IF node_deny # 0 THEN BitAndNot(merged, node_deny) ELSE merged

\* FoldStep with the node's deny left out
FoldStepNoDeny(inherit_mode, effective_mask, node_allow, node_deny) ==
    IF inherit_mode = "MERGE" THEN BitOr(effective_mask, node_allow)
    ELSE IF inherit_mode = "OVERRIDE" THEN node_allow
    ELSE effective_mask

\* the mode-specific step of the fold and the node's deny after it
FoldStep(inherit_mode, effective_mask, node_allow, node_deny) ==
    LET merged == IF inherit_mode = "MERGE" THEN BitOr(effective_mask, node_allow)
                  ELSE IF inherit_mode = "OVERRIDE" THEN node_allow
                  ELSE effective_mask
    IN IF node_deny # 0 THEN BitAndNot(merged, node_deny) ELSE merged

\* the dependency test passing on any common bit
DependencyMetAnyBit(dep_mask, required_mask) == BitAnd(dep_mask, required_mask) # 0

DependencyMet(dep_mask, required_mask) == HasAll(dep_mask, required_mask)

RECURSIVE calc_permissions_for_subject(_, _, _, _, _, _, _, _)
RECURSIVE FoldChain(_, _, _, _, _, _, _, _, _)
RECURSIVE FoldAcls(_, _, _, _, _, _, _, _, _, _)
RECURSIVE CheckDepsFrom(_, _, _, _, _, _, _)
RECURSIVE get_effective_permissions_for_subject(_, _, _, _, _, _, _, _)
RECURSIVE ApplyFrom(_, _, _, _, _, _, _, _)
RECURSIVE CallStrategy(_, _, _, _, _, _, _, _)

\* the calls a lookup nests besides _calc_permissions_for_subject:
\* _get_effective_permissions_for_subject, apply_strategies, the strategy and
\* permission_lookup
LookupFrames == 4

\* permission_lookup of _get_effective_permissions_for_subject: a fresh visited
\* list, the shared cache, the resource of the enclosing call
permission_lookup(st, subject, resource_id, ctx, cache, depth) ==
    calc_permissions_for_subject(st, subject.type, subject.id, resource_id, ctx,
                                 <<>>, cache, depth - LookupFrames)

\* as_role_g: current_mask | lookup, r being what the lookup gave
AddLookup(mask, r) ==
    IF r.err # "" THEN r ELSE Returned(BitOr(mask, r.mask), <<>>, r.cache)

CallStrategy(st, kind, user_id, resource_id, ctx, mask, cache, depth) ==
    IF kind = "owner_all"
    THEN Returned(IF ctx = "owner" THEN 7 ELSE mask, <<>>, cache)
    ELSE IF kind = "drop_modify"
    THEN Returned(BitAndNot(mask, MODIFY), <<>>, cache)
    ELSE IF kind = "grant_visit"
    THEN Returned(BitOr(mask, VISIT), <<>>, cache)
    ELSE IF kind = "as_role_g_plain"
    THEN AddLookup(mask, permission_lookup(st, [type |-> ROLE, id |-> "g"],
                                           resource_id, "none", cache, depth))
    ELSE AddLookup(mask, permission_lookup(st, [type |-> ROLE, id |-> "g"],
                                           resource_id, ctx, cache, depth))

\* current_mask = strategy(...), r being what the i-th strategy gave
ApplyNext(st, i, user_id, resource_id, ctx, depth, r) ==
    IF r.err # "" THEN r
    ELSE ApplyFrom(st, i + 1, user_id, resource_id, ctx, r.mask, r.cache, depth)

\* PermissionEngine.apply_strategies, from the i-th registered strategy on
ApplyFrom(st, i, user_id, resource_id, ctx, mask, cache, depth) ==
    IF i > Len(st.strategies) THEN Returned(mask, <<>>, cache)
    ELSE ApplyNext(st, i, user_id, resource_id, ctx, depth,
                   CallStrategy(st, st.strategies[i], user_id, resource_id, ctx,
                                mask, cache, depth))

\* apply_strategies going through the strategies last registered first
ApplyReversed(st, user_id, resource_id, ctx, mask, cache, depth) ==
    ApplyFrom([st EXCEPT !.strategies = Reverse(st.strategies)], 1, user_id,
              resource_id, ctx, mask, cache, depth)

apply_strategies(st, user_id, resource_id, ctx, mask, cache, depth) ==
    ApplyFrom(st, 1, user_id, resource_id, ctx, mask, cache, depth)

\* dep_mask of _check_acl_dependencies: service.py goes through the strategies
\* of a user, async_/service.py takes the static mask
DepMask(st, dep, ctx, visited, cache, depth) ==
    IF st.flavour = "async"
    THEN calc_permissions_for_subject(st, dep.subject_type, dep.subject_id,
                                      dep.resource_id, ctx, visited, cache, depth)
    ELSE get_effective_permissions_for_subject(st, dep.subject_type, dep.subject_id,
                                               dep.resource_id, ctx, visited, cache,
                                               depth)

\* the test of the k-th dependency deciding for the ones listed after it
CheckDepsNextFirstDecides(st, deps, k, ctx, depth, r) ==
    IF r.err # "" THEN r
    ELSE IF ~DependencyMet(r.mask, deps[k].required_mask)
    THEN [Returned(0, r.visited, r.cache) EXCEPT !.ok = FALSE]
    ELSE Returned(0, r.visited, r.cache)

\* the test of the k-th dependency, r being its dep_mask
CheckDepsNext(st, deps, k, ctx, depth, r) ==
    IF r.err # "" THEN r
    ELSE IF ~DependencyMet(r.mask, deps[k].required_mask)
    THEN [Returned(0, r.visited, r.cache) EXCEPT !.ok = FALSE]
    ELSE CheckDepsFrom(st, deps, k + 1, ctx, r.visited, r.cache, depth)

\* _check_acl_dependencies, from the k-th dependency on
CheckDepsFrom(st, deps, k, ctx, visited, cache, depth) ==
    IF k > Len(deps) THEN Returned(0, visited, cache)
    ELSE IF ~HasResource(st, deps[k].resource_id)
    THEN Raised("KeyError", <<>>, visited, cache)
    ELSE CheckDepsNext(st, deps, k, ctx, depth,
                       DepMask(st, deps[k], ctx, visited, cache, depth))

check_acl_dependencies(st, acl, ctx, visited, cache, depth) ==
    CheckDepsFrom(st, acl.dependencies, 1, ctx, visited, cache, depth)

\* service.py 174: the check repeated for an unmet entry, c2 its outcome, which
\* is dropped
FoldAclsRechecked(st, idx, j, relevant, ctx, node_allow, node_deny, depth, c2) ==
    IF c2.err # "" THEN c2
    ELSE FoldAcls(st, idx, j + 1, relevant, ctx, node_allow, node_deny,
                  c2.visited, c2.cache, depth)

\* FoldAclsChecked with the entry's masks taking the place of those gathered
\* from the entries before it
FoldAclsCheckedLastWins(st, idx, j, relevant, ctx, node_allow, node_deny, depth, c) ==
    IF c.err # "" THEN c
    ELSE IF c.ok
    THEN FoldAcls(st, idx, j + 1, relevant, ctx, st.acls[idx[j]].allow_mask,
                  st.acls[idx[j]].deny_mask, c.visited, c.cache, depth)
    ELSE FoldAcls(st, idx, j + 1, relevant, ctx, node_allow, node_deny,
                  c.visited, c.cache, depth)

\* the j-th entry, c being the outcome of its dependency check
FoldAclsChecked(st, idx, j, relevant, ctx, node_allow, node_deny, depth, c) ==
    IF c.err # "" THEN c
    ELSE IF c.ok
    THEN FoldAcls(st, idx, j + 1, relevant, ctx,
                  BitOr(node_allow, st.acls[idx[j]].allow_mask),
                  BitOr(node_deny, st.acls[idx[j]].deny_mask),
                  c.visited, c.cache, depth)
    ELSE IF st.flavour = "async"
    THEN FoldAcls(st, idx, j + 1, relevant, ctx, node_allow, node_deny,
                  c.visited, c.cache, depth)
    ELSE FoldAclsRechecked(st, idx, j, relevant, ctx, node_allow, node_deny, depth,
                           check_acl_dependencies(st, st.acls[idx[j]], ctx,
                                                  c.visited, c.cache, depth))

\* the inner loop of _calc_permissions_for_subject over the ACL entries of one
\* node, from the j-th on; mask carries node_allow, and node_deny rides along
FoldAcls(st, idx, j, relevant, ctx, node_allow, node_deny, visited, cache, depth) ==
    IF j > Len(idx)
    THEN [Returned(node_allow, visited, cache) EXCEPT !.deny = node_deny]
    ELSE IF <<st.acls[idx[j]].subject_type, st.acls[idx[j]].subject_id>> \notin relevant
    THEN FoldAcls(st, idx, j + 1, relevant, ctx, node_allow, node_deny,
                  visited, cache, depth)
    ELSE FoldAclsChecked(st, idx, j, relevant, ctx, node_allow, node_deny, depth,
                         check_acl_dependencies(st, st.acls[idx[j]], ctx, visited,
                                                cache, depth))

\* the i-th node of the chain, n being the outcome of its inner loop
FoldChainNode(st, chain, i, relevant, ctx, effective_mask, depth, n) ==
    IF n.err # "" THEN n
    ELSE FoldChain(st, chain, i + 1, relevant, ctx,
                   FoldStep(chain[i].inherit_mode, effective_mask, n.mask, n.deny),
                   n.visited, n.cache, depth)

\* the outer loop over the chain, root first, from the i-th node on
FoldChain(st, chain, i, relevant, ctx, effective_mask, visited, cache, depth) ==
    IF i > Len(chain) THEN Returned(effective_mask, visited, cache)
    ELSE FoldChainNode(st, chain, i, relevant, ctx, effective_mask, depth,
                       FoldAcls(st, iter_acls_for_resource(st, chain[i].id), 1,
                                relevant, ctx, NONE, NONE, visited, cache, depth))

\* cache[key] = effective_mask; visited.pop(); return, r being the fold's outcome
CalcDone(key, r) ==
    IF r.err # "" THEN r
    ELSE Returned(r.mask, SubSeq(r.visited, 1, Len(r.visited) - 1),
                  (key :> r.mask) @@ r.cache)

calc_permissions_for_subject(st, subject_type, subject_id, resource_id, ctx, visited, cache, depth) ==
    LET key == CacheKey(subject_type, subject_id, resource_id) IN
    IF key \in DOMAIN cache THEN Returned(cache[key], visited, cache)
    ELSE IF key \in Range(visited)
    THEN Raised("DependencyCycle",
                SubSeq(visited, IndexOf(visited, key), Len(visited)) \o <<key>>,
                visited, cache)
    ELSE IF depth <= 0 THEN Raised("RecursionError", <<>>, visited, cache)
    ELSE IF subject_type = USER /\ subject_id \notin DOMAIN st.users
    THEN Raised("KeyError", <<>>, Append(visited, key), cache)
    ELSE CalcDone(key,
                  FoldChain(st, Reverse(get_resource_chain(st, resource_id)), 1,
                            RelevantSubjects(st, subject_type, subject_id), ctx,
                            NONE, Append(visited, key), cache, depth - 1))

\* return final, f being what apply_strategies gave for base
StrategiesDone(base, f) ==
    IF f.err # "" THEN f ELSE Returned(f.mask, base.visited, f.cache)

\* the strategy chain on the base mask, for a user only
WithStrategies(st, subject_type, subject_id, resource_id, ctx, depth, base) ==
    IF base.err # "" THEN base
    ELSE IF subject_type = USER
    THEN StrategiesDone(base, apply_strategies(st, subject_id, resource_id, ctx,
                                               base.mask, base.cache, depth))
    ELSE base

get_effective_permissions_for_subject(st, subject_type, subject_id, resource_id, ctx, visited, cache, depth) ==
    WithStrategies(st, subject_type, subject_id, resource_id, ctx, depth,
                   calc_permissions_for_subject(st, subject_type, subject_id,
                                                resource_id, ctx, visited, cache,
                                                depth))

\* get_effective_permissions answering from the store as the last call of the
\* surface found it, where that store holds the resource
GetEffectiveBeforeLastCall(st, user_id, resource_id, ctx) ==
    IF ~HasResource(st, resource_id) THEN Raised("KeyError", <<>>, <<>>, <<>>)
    ELSE IF HasResource(last.before, resource_id) /\ user_id \in DOMAIN last.before.users
    THEN get_effective_permissions_for_subject(
             [last.before EXCEPT !.flavour = st.flavour], USER, user_id, resource_id,
             ctx, <<>>, <<>>, RecursionLimit)
    ELSE get_effective_permissions_for_subject(st, USER, user_id, resource_id, ctx,
                                               <<>>, <<>>, RecursionLimit)

\* PermissionService.get_effective_permissions: storage.get_resource first
get_effective_permissions(st, user_id, resource_id, ctx) ==
    IF ~HasResource(st, resource_id) THEN Raised("KeyError", <<>>, <<>>, <<>>)
    ELSE get_effective_permissions_for_subject(st, USER, user_id, resource_id, ctx,
                                               <<>>, <<>>, RecursionLimit)

\* the static mask: _calc_permissions_for_subject on a fresh visited list and cache
static_permissions(st, subject, resource_id, ctx) ==
    calc_permissions_for_subject(st, subject.type, subject.id, resource_id, ctx,
                                 <<>>, <<>>, RecursionLimit)

-----------------------------------------------------------------------------
(* The executor (function.py, class PermissionExecutor, and                 *)
(* async_/function.py, class AsyncPermissionExecutor).                      *)
(* An operation returns the store it leaves, the exception it raised (""    *)
(* for none), the value it returned (NoneRet for None) and, for the writes, *)
(* one entry per resource it went through: the resource id, the executor's  *)
(* mask on it as the gate saw it, and whether the target's ACL was written. *)

NoneRet == 0 - 1

Done(st, ret, trace) == [st |-> st, err |-> "", ret |-> ret, cycle |-> <<>>, trace |-> trace]

Failed(st, err, trace) == [st |-> st, err |-> err, ret |-> NoneRet, cycle |-> <<>>, trace |-> trace]

FailedAs(st, r, trace) == [st |-> st, err |-> r.err, ret |-> NoneRet, cycle |-> r.cycle, trace |-> trace]

\* return (eff & required_mask) == required_mask of PermissionService, r being
\* the evaluator's outcome
HasPermissionDone(st, required_mask, r) ==
    IF r.err # "" THEN FailedAs(st, r, <<>>)
    ELSE Done(st, HasAll(r.mask, required_mask), <<>>)

\* PermissionService.has_permission
has_permission(st, user_id, resource_id, required_mask, ctx) ==
    HasPermissionDone(st, required_mask,
                      get_effective_permissions(st, user_id, resource_id, ctx))

RootId == <<"r", "o", "o", "t">>

\* _get_parent_and_self: parent and node are ids, None for None
get_parent_and_self(st, resource_path, missing_ok) ==
    LET path == Strip(resource_path) IN
    IF path = <<>> THEN
      IF st.flavour = "async"
      THEN IF missing_ok THEN [err |-> "", parent |-> None, node |-> None]
           ELSE [err |-> "ResourceNotFound", parent |-> None, node |-> None]
      ELSE IF ~HasResource(st, RootId) /\ ~missing_ok
           THEN [err |-> "ResourceNotFound", parent |-> None, node |-> None]
           ELSE [err |-> "", parent |-> None,
                 node |-> IF HasResource(st, RootId) THEN RootId ELSE None]
    ELSE
      LET self_id == IF st.flavour = "async" THEN resource_path ELSE path
          self_node == IF HasResource(st, self_id) THEN self_id ELSE None
          parent_id == IF NODE_SEPARATOR \in Range(path)
                       THEN RPartitionHead(path) ELSE None
          parent_node == IF parent_id # None /\ HasResource(st, parent_id)
                         THEN parent_id ELSE None
      IN IF parent_node = None /\ parent_id # None /\ ~missing_ok
         THEN [err |-> "ResourceNotFound", parent |-> None, node |-> None]
         ELSE IF self_node = None /\ ~missing_ok
         THEN [err |-> "ResourceNotFound", parent |-> None, node |-> None]
         ELSE [err |-> "", parent |-> parent_node, node |-> self_node]

\* _ensure_resource_for_set on the nodes found, ps being what
\* _get_parent_and_self gave; st is the store it leaves
EnsureAt(st, resource_path, missing_ok, ps) ==
    IF ps.err # "" THEN [st |-> st, err |-> ps.err, parent |-> None, node |-> None]
    ELSE IF ps.node = None
    THEN IF ~missing_ok
         THEN [st |-> st, err |-> "ResourceNotFound", parent |-> None, node |-> None]
         ELSE [st |-> define(st, resource_path, NoMode, "GENERIC"), err |-> "",
               parent |-> ps.parent, node |-> DefinedId(resource_path)]
    ELSE [st |-> st, err |-> "", parent |-> ps.parent, node |-> ps.node]

ensure_resource_for_set(st, resource_path, missing_ok) ==
    EnsureAt(st, resource_path, missing_ok,
             get_parent_and_self(st, resource_path, missing_ok))

ChmodModes == {"=", "+", "-"}

\* _apply_chmod with "=" adding to the old mask as "+" does
ApplyChmodAdds(old_mask, mask, mode) ==
    IF mode = "-" THEN BitAndNot(old_mask, mask) ELSE BitOr(old_mask, mask)

\* _apply_chmod, the mode being one of "=", "+", "-"
apply_chmod(old_mask, mask, mode) ==
    IF mode = "=" THEN mask
    ELSE IF mode = "+" THEN BitOr(old_mask, mask)
    ELSE BitAndNot(old_mask, mask)

\* return the mask, r being the evaluator's outcome
SugetDone(st, r) ==
    IF r.err # "" THEN FailedAs(st, r, <<>>) ELSE Done(st, r.mask, <<>>)

\* suget on the nodes found, ps being what _get_parent_and_self gave
SugetAt(st, subject, ctx, ps) ==
    IF ps.err # "" THEN Failed(st, ps.err, <<>>)
    ELSE IF ps.node = None THEN Done(st, NoneRet, <<>>)
    ELSE IF subject.type = ROLE
    THEN SugetDone(st, static_permissions(st, subject, ps.node, ctx))
    ELSE SugetDone(st, get_effective_permissions(st, subject.id, ps.node, ctx))

\* suget
suget(st, subject, resource_path, missing_ok, ctx) ==
    SugetAt(st, subject, ctx, get_parent_and_self(st, resource_path, missing_ok))

\* test answering False on a missing node, as its docstring has it
DefaultTestMaskNone == NONE

\* the mask test stands in for a missing node
DefaultTestMask == BitOr(VISIT, AVAILABLE)

\* the comparison of test, r being what suget gave
TestDone(required_mask, r) ==
    IF r.err # "" THEN r
    ELSE [r EXCEPT !.ret = HasAll(IF r.ret = NoneRet THEN DefaultTestMask ELSE r.ret,
                                  required_mask)]

\* test
test(st, subject, resource_path, required_mask, missing_ok, ctx) ==
    TestDone(required_mask, suget(st, subject, resource_path, missing_ok, ctx))

\* the VISIT test of get, sm being the executor's mask on the node
GetSelfChecked(st, sm) ==
    IF sm.err # "" THEN FailedAs(st, sm, <<>>)
    ELSE IF ~HasAll(sm.mask, VISIT) THEN Failed(st, "PermissionDenied", <<>>)
    ELSE Done(st, sm.mask, <<>>)

GetSelf(st, executor, ctx, node) ==
    IF node = None THEN Done(st, NoneRet, <<>>)
    ELSE GetSelfChecked(st, get_effective_permissions(st, executor.id, node, ctx))

\* the parent test of get (function.py 249-254), pm being the executor's mask
\* on the parent
GetParentChecked(st, executor, ctx, node, pm) ==
    IF pm.err # "" THEN FailedAs(st, pm, <<>>)
    ELSE IF ~HasAll(pm.mask, BitOr(VISIT, AVAILABLE))
    THEN Failed(st, "PermissionDenied", <<>>)
    ELSE GetSelf(st, executor, ctx, node)

\* get on the nodes found: function.py checks the parent first,
\* async_/function.py does not
GetAt(st, executor, ctx, ps) ==
    IF ps.err # "" THEN Failed(st, ps.err, <<>>)
    ELSE IF st.flavour = "sync" /\ ps.parent # None
    THEN GetParentChecked(st, executor, ctx, ps.node,
                          get_effective_permissions(st, executor.id, ps.parent, ctx))
    ELSE GetSelf(st, executor, ctx, ps.node)

\* get
get(st, executor, resource_path, missing_ok, ctx) ==
    GetAt(st, executor, ctx, get_parent_and_self(st, resource_path, missing_ok))

\* _apply_chmod on the primary ACL at index k (0: none) of the chosen side
NewMask(st, k, side, mask, mode) ==
    apply_chmod(IF k = 0 THEN 0
                ELSE IF side = "deny" THEN st.acls[k].deny_mask
                ELSE st.acls[k].allow_mask,
                mask, mode)

\* the update in place of the primary ACL at index k, or storage.assign
WriteAt(st, target, node_id, k, side, new_mask) ==
    IF k # 0
    THEN IF side = "deny" THEN [st EXCEPT !.acls[k].deny_mask = new_mask]
         ELSE [st EXCEPT !.acls[k].allow_mask = new_mask]
    ELSE IF side = "deny" THEN assign(st, target, node_id, NONE, new_mask)
         ELSE assign(st, target, node_id, new_mask, NONE)

\* steps 3 to 5 of set and suset on one node: the target's primary ACL is
\* updated, or created through storage.assign.  function.py knows the allow
\* side only; async_/function.py takes deny and goes through update_acl.
write_acl(st, target, node_id, mask, mode, deny) ==
    WriteAt(st, target, node_id, get_primary_acl(st, target, node_id),
            IF st.flavour = "async" /\ deny THEN "deny" ELSE "allow",
            NewMask(st, get_primary_acl(st, target, node_id),
                    IF st.flavour = "async" /\ deny THEN "deny" ELSE "allow",
                    mask, mode))

\* suset on the node found or made, e being what _ensure_resource_for_set gave
SusetAt(subject, mask, mode, deny, e) ==
    IF e.err # "" THEN Failed(e.st, e.err, <<>>)
    ELSE IF mode \notin ChmodModes THEN Failed(e.st, "ValueError", <<>>)
    ELSE Done(write_acl(e.st, subject, e.node, mask, mode, deny), NoneRet,
              <<[id |-> e.node, mask |-> NoneRet, written |-> TRUE]>>)

\* suset on a single path
suset(st, subject, resource_path, mask, mode, deny, missing_ok) ==
    SusetAt(subject, mask, mode, deny,
            ensure_resource_for_set(st, Strip(resource_path), missing_ok))

\* the loop of suset over the matched nodes, from the i-th on
RECURSIVE SusetMatched(_, _, _, _, _, _, _, _, _)
SusetMatched(st, matched, i, subject, mask, mode, deny, missing_ok, trace) ==
    IF i > Len(matched) THEN Done(st, NoneRet, trace)
    ELSE IF matched[i].parent_id # None /\ ~HasResource(st, matched[i].parent_id)
    THEN IF ~missing_ok THEN Failed(st, "ResourceNotFound", trace)
         ELSE SusetMatched(st, matched, i + 1, subject, mask, mode, deny,
                           missing_ok, trace)
    ELSE IF mode \notin ChmodModes THEN Failed(st, "ValueError", trace)
    ELSE SusetMatched(write_acl(st, subject, matched[i].id, mask, mode, deny),
                      matched, i + 1, subject, mask, mode, deny, missing_ok,
                      Append(trace, [id |-> matched[i].id, mask |-> NoneRet,
                                     written |-> TRUE]))

\* suset with a callable pattern
suset_matching(st, subject, accepted, mask, mode, deny, missing_ok) ==
    SusetMatched(st, match_resources(st, accepted), 1, subject, mask, mode, deny,
                 missing_ok, <<>>)

\* suset with a path that holds a glob character
suset_glob(st, subject, pattern, mask, mode, deny, missing_ok) ==
    SusetMatched(st, glob_resources(st, Strip(pattern)), 1, subject, mask, mode, deny,
                 missing_ok, <<>>)

RequiredParent == BitOr(VISIT, BitOr(MODIFY, AVAILABLE))

\* what the gate of set leaves: the store, the exception, whether the node was
\* skipped, the executor's mask on the node
Gate(st, err, cycle, skip, mask) ==
    [st |-> st, err |-> err, cycle |-> cycle, skip |-> skip, mask |-> mask]

\* GateSelfChecked without the MODIFY test
GateSelfUnchecked(st, target, node_id, mask, mode, deny, sm) ==
    IF sm.err # "" THEN Gate(st, sm.err, sm.cycle, FALSE, NoneRet)
    ELSE IF mode \notin ChmodModes THEN Gate(st, "ValueError", <<>>, FALSE, sm.mask)
    ELSE Gate(write_acl(st, target, node_id, mask, mode, deny), "", <<>>, FALSE,
              sm.mask)

\* GateSelfChecked without the test of the mode: _apply_chmod falling through
\* to its last branch
GateSelfAnyMode(st, target, node_id, mask, mode, deny, sm) ==
    IF sm.err # "" THEN Gate(st, sm.err, sm.cycle, FALSE, NoneRet)
    ELSE IF ~HasAll(sm.mask, MODIFY) THEN Gate(st, "", <<>>, TRUE, sm.mask)
    ELSE Gate(write_acl(st, target, node_id, mask, mode, deny), "", <<>>, FALSE,
              sm.mask)

\* the MODIFY test of set and the write behind it, sm being the executor's
\* mask on the node
GateSelfChecked(st, target, node_id, mask, mode, deny, sm) ==
    IF sm.err # "" THEN Gate(st, sm.err, sm.cycle, FALSE, NoneRet)
    ELSE IF ~HasAll(sm.mask, MODIFY) THEN Gate(st, "", <<>>, TRUE, sm.mask)
    ELSE IF mode \notin ChmodModes THEN Gate(st, "ValueError", <<>>, FALSE, sm.mask)
    ELSE Gate(write_acl(st, target, node_id, mask, mode, deny), "", <<>>, FALSE,
              sm.mask)

GateSelf(st, executor, target, node_id, mask, mode, deny, ctx) ==
    GateSelfChecked(st, target, node_id, mask, mode, deny,
                    get_effective_permissions(st, executor.id, node_id, ctx))

\* the parent test of set, pm being the executor's mask on the parent
GateParentChecked(st, executor, target, node_id, mask, mode, deny, ctx, pm) ==
    IF pm.err # "" THEN Gate(st, pm.err, pm.cycle, FALSE, NoneRet)
    ELSE IF ~HasAll(pm.mask, RequiredParent)
    THEN Gate(st, "PermissionDenied", <<>>, FALSE, NoneRet)
    ELSE GateSelf(st, executor, target, node_id, mask, mode, deny, ctx)

\* the gate of set on one node and the write behind it; skip tells a node the
\* executor may not modify
GatedWrite(st, executor, target, parent, node_id, mask, mode, deny, ctx) ==
    IF parent # None
    THEN GateParentChecked(st, executor, target, node_id, mask, mode, deny, ctx,
                           get_effective_permissions(st, executor.id, parent, ctx))
    ELSE GateSelf(st, executor, target, node_id, mask, mode, deny, ctx)

\* the end of set on a single path, g being what the gate left
SetDone(node_id, g) ==
    IF g.err # "" THEN FailedAs(g.st, g, <<>>)
    ELSE Done(g.st, NoneRet, <<[id |-> node_id, mask |-> g.mask, written |-> ~g.skip]>>)

\* set on the node found or made, e being what _ensure_resource_for_set gave
SetAt(executor, target, mask, mode, deny, ctx, e) ==
    IF e.err # "" THEN Failed(e.st, e.err, <<>>)
    ELSE SetDone(e.node, GatedWrite(e.st, executor, target, e.parent, e.node, mask,
                                    mode, deny, ctx))

\* set on a single path
set(st, executor, target, resource_path, mask, mode, deny, missing_ok, ctx) ==
    SetAt(executor, target, mask, mode, deny, ctx,
          ensure_resource_for_set(st, Strip(resource_path), missing_ok))

RECURSIVE SetMatched(_, _, _, _, _, _, _, _, _, _, _)

\* the i-th matched node, g being what the gate left
SetMatchedNext(matched, i, executor, target, mask, mode, deny, missing_ok, ctx, trace, g) ==
    IF g.err # "" THEN FailedAs(g.st, g, trace)
    ELSE SetMatched(g.st, matched, i + 1, executor, target, mask, mode, deny,
                    missing_ok, ctx,
                    Append(trace, [id |-> matched[i].id, mask |-> g.mask,
                                   written |-> ~g.skip]))

\* the loop of set over the matched nodes, from the i-th on
SetMatched(st, matched, i, executor, target, mask, mode, deny, missing_ok, ctx, trace) ==
    IF i > Len(matched) THEN Done(st, NoneRet, trace)
    ELSE IF matched[i].parent_id # None /\ ~HasResource(st, matched[i].parent_id)
    THEN IF ~missing_ok THEN Failed(st, "ResourceNotFound", trace)
         ELSE SetMatched(st, matched, i + 1, executor, target, mask, mode, deny,
                         missing_ok, ctx, trace)
    ELSE SetMatchedNext(matched, i, executor, target, mask, mode, deny, missing_ok,
                        ctx, trace,
                        GatedWrite(st, executor, target, matched[i].parent_id,
                                   matched[i].id, mask, mode, deny, ctx))

\* set with a callable pattern
set_matching(st, executor, target, accepted, mask, mode, deny, missing_ok, ctx) ==
    SetMatched(st, match_resources(st, accepted), 1, executor, target, mask, mode,
               deny, missing_ok, ctx, <<>>)

\* set with a path that holds a glob character
set_glob(st, executor, target, pattern, mask, mode, deny, missing_ok, ctx) ==
    SetMatched(st, glob_resources(st, Strip(pattern)), 1, executor, target, mask, mode,
               deny, missing_ok, ctx, <<>>)

-----------------------------------------------------------------------------
(* The universe of the model: one user, two roles, a two-level tree and a   *)
(* second root.                                                             *)

U == [type |-> USER, id |-> "u"]
G == [type |-> ROLE, id |-> "g"]
H == [type |-> ROLE, id |-> "h"]

Subjects == {U, G, H}

PA == <<"a">>
PB == <<"a", ".", "b">>
PQ == <<"q">>

Paths == {PA, PB, PQ}

\* a third level, and a.b written with separators around and doubled
PC == <<"a", ".", "b", ".", "c">>
PD == <<".", "a", ".", ".", "b", ".">>

MaxAcls == 2
MaxDeps == 2
MaxStrategies == 2

\* the longest expression given to Permission.parse
MaxExprLen == 3

-----------------------------------------------------------------------------
(* State.  last describes the last call of the surface: what was called,    *)
(* with which arguments, on which store (before), and how it ended.         *)

EmptyStore ==
    [resources |-> <<>>, users |-> <<>>, roles |-> <<>>, acls |-> <<>>,
     strategies |-> <<>>, flavour |-> "sync"]

NoCall ==
    [op |-> "", flavour |-> "", subject |-> U, target |-> U, path |-> <<>>,
     accepted |-> {}, pattern |-> <<>>, mask |-> 0, mode |-> "", deny |-> FALSE,
     missing_ok |-> FALSE, ctx |-> "", err |-> "", ret |-> NoneRet,
     cycle |-> <<>>, trace |-> <<>>, before |-> EmptyStore]

Init ==
    /\ resources = <<>>
    /\ users = [id \in {"u"} |-> <<>>]
    /\ roles = [id \in {"g", "h"} |-> <<>>]
    /\ acls = <<>>
    /\ strategies = <<>>
    /\ last = NoCall

\* the store variables take the collections of st
Becomes(st) ==
    /\ resources' = st.resources
    /\ users' = st.users
    /\ roles' = st.roles
    /\ acls' = st.acls
    /\ strategies' = st.strategies

TotalDeps(st) ==
    LET sum[i \in 0..Len(st.acls)] ==
          IF i = 0 THEN 0 ELSE sum[i - 1] + Len(st.acls[i].dependencies)
    IN sum[Len(st.acls)]

WithinBounds(st) == Len(st.acls) <= MaxAcls /\ TotalDeps(st) <= MaxDeps

\* store.define(path, inherit_mode)
Define(path, inherit_mode) ==
    /\ Becomes(define(Store, path, inherit_mode, "GENERIC"))
    /\ last' = NoCall

\* store.define(path, inherit_mode), last keeping the call: the inherit mode
\* as mode
DefineObserved(path, inherit_mode) ==
    /\ Becomes(define(Store, path, inherit_mode, "GENERIC"))
    /\ last' = [NoCall EXCEPT !.op = "define", !.flavour = "sync", !.path = path,
                              !.mode = inherit_mode, !.before = Store]

\* store.assign(subject, path, allow_mask, deny_mask)
Assign(subject, path, allow_mask, deny_mask) ==
    /\ Len(acls) < MaxAcls
    /\ Becomes(assign(Store, subject, path, allow_mask, deny_mask))
    /\ last' = NoCall

\* store.depend(target_subject, target_resource_id, dep_subject, dep_path, mask);
\* without a primary ACL of the target the call raises and changes nothing
Depend(target_subject, target_resource_id, dep_subject, dep_path, required_mask) ==
    /\ get_primary_acl(Store, target_subject, target_resource_id) # 0
    /\ TotalDeps(Store) < MaxDeps
    /\ Becomes(depend(Store, target_subject, target_resource_id, dep_subject,
                      dep_path, required_mask))
    /\ last' = NoCall

\* store.inherit(child, parent)
Inherit(child, parent) ==
    /\ Becomes(inherit(Store, child, parent))
    /\ last' = NoCall

\* store.set_user_track_level(user, track, level_index); last keeps the level
\* index as mask
SetUserTrackLevel(user, level_index) ==
    /\ Becomes(set_user_track_level(Store, user.id, TrackLevels, level_index))
    /\ last' = [NoCall EXCEPT !.op = "set_user_track_level", !.subject = user,
                              !.mask = level_index,
                              !.err = TrackLevelError(TrackLevels, level_index),
                              !.before = Store]

\* store.promote_track(user, track, step); last keeps the step as mask and the
\* level index returned
PromoteTrack(user, step) ==
    /\ Becomes(promote_track(Store, user.id, TrackLevels, step))
    /\ last' = [NoCall EXCEPT !.op = "promote_track", !.subject = user,
                              !.mask = step,
                              !.ret = promoted_index(Store, user.id, TrackLevels, step),
                              !.before = Store]

\* store.demote_track(user, track, step); last keeps the step as mask and the
\* level index returned
DemoteTrack(user, step) ==
    /\ Becomes(demote_track(Store, user.id, TrackLevels, step))
    /\ last' = [NoCall EXCEPT !.op = "demote_track", !.subject = user,
                              !.mask = step,
                              !.ret = demoted_index(Store, user.id, TrackLevels, step),
                              !.before = Store]

\* expand_roles(role_ids, storage.roles); last keeps role_ids as path and the
\* returned set as ret
ExpandRoles(role_ids) ==
    /\ last' = [NoCall EXCEPT !.op = "expand_roles", !.path = role_ids,
                              !.ret = expand_roles(role_ids, roles),
                              !.before = Store]
    /\ UNCHANGED <<resources, users, roles, acls, strategies>>

\* Permission.parse on the expression of last.path with c typed after it;
\* last keeps the expression as path and the mask, the mode and deny returned
Parse(c) ==
    /\ Len(last.path) < MaxExprLen
    /\ last' = [NoCall EXCEPT !.op = "parse",
                              !.path = Append(last.path, c),
                              !.err = parse(Append(last.path, c)).err,
                              !.ret = parse(Append(last.path, c)).mask,
                              !.mode = parse(Append(last.path, c)).mode,
                              !.deny = parse(Append(last.path, c)).deny]
    /\ UNCHANGED <<resources, users, roles, acls, strategies>>

\* engine.register_strategy(kind)
RegisterStrategy(kind) ==
    /\ Len(strategies) < MaxStrategies
    /\ strategies' = Append(strategies, kind)
    /\ last' = NoCall
    /\ UNCHANGED <<resources, users, roles, acls>>

\* a call and its arguments, as last keeps them; pattern is the glob pattern
\* of a call made with one
Call(op, flavour, subject, target, path, accepted, mask, mode, deny, missing_ok, ctx) ==
    [op |-> op, flavour |-> flavour, subject |-> subject, target |-> target,
     path |-> path, accepted |-> accepted, pattern |-> <<>>, mask |-> mask,
     mode |-> mode, deny |-> deny, missing_ok |-> missing_ok, ctx |-> ctx]

\* the call ends as r tells: the store it leaves becomes the store, last
\* keeps the call, its outcome and the store it was made on
Observed(call, r) ==
    /\ WithinBounds(r.st)
    /\ Becomes(r.st)
    /\ last' = [op |-> call.op, flavour |-> call.flavour, subject |-> call.subject,
                target |-> call.target, path |-> call.path,
                accepted |-> call.accepted, pattern |-> call.pattern,
                mask |-> call.mask, mode |-> call.mode,
                deny |-> call.deny, missing_ok |-> call.missing_ok, ctx |-> call.ctx,
                err |-> r.err, ret |-> r.ret, cycle |-> r.cycle, trace |-> r.trace,
                before |-> Store]

\* service.get_effective_permissions(user, resource_id, context)
Evaluate(flavour, user, resource_id, ctx) ==
    Observed(Call("get_effective_permissions", flavour, user, user, resource_id, {},
                  0, "", FALSE, FALSE, ctx),
             SugetDone(Store, get_effective_permissions(StoreOf(flavour), user.id,
                                                        resource_id, ctx)))

\* executor.suget(subject, path, missing_ok, context)
SuGet(flavour, subject, path, missing_ok, ctx) ==
    Observed(Call("suget", flavour, subject, subject, path, {}, 0, "", FALSE,
                  missing_ok, ctx),
             suget(StoreOf(flavour), subject, path, missing_ok, ctx))

\* executor.get(executor, path, missing_ok, context)
Get(flavour, executor, path, missing_ok, ctx) ==
    Observed(Call("get", flavour, executor, executor, path, {}, 0, "", FALSE,
                  missing_ok, ctx),
             get(StoreOf(flavour), executor, path, missing_ok, ctx))

\* executor.suset(subject, path, mask, mode, [deny,] missing_ok), a single path
SuSet(flavour, subject, path, mask, mode, deny, missing_ok) ==
    Observed(Call("suset", flavour, subject, subject, path, {}, mask, mode, deny,
                  missing_ok, "none"),
             suset(StoreOf(flavour), subject, path, mask, mode, deny, missing_ok))

\* executor.set(executor, target, path, mask, mode, [deny,] missing_ok, context)
Set(flavour, executor, target, path, mask, mode, deny, missing_ok, ctx) ==
    Observed(Call("set", flavour, executor, target, path, {}, mask, mode, deny,
                  missing_ok, ctx),
             set(StoreOf(flavour), executor, target, path, mask, mode, deny,
                 missing_ok, ctx))

\* executor.set(executor, target, pattern, ...), pattern a callable
SetMatching(flavour, executor, target, accepted, mask, mode, deny, missing_ok, ctx) ==
    Observed(Call("set", flavour, executor, target, <<>>, accepted, mask, mode,
                  deny, missing_ok, ctx),
             set_matching(StoreOf(flavour), executor, target, accepted, mask, mode,
                          deny, missing_ok, ctx))

\* executor.suset(subject, pattern, mask, mode, [deny,] missing_ok), pattern a
\* string with a glob character
SuSetGlob(flavour, subject, pattern, mask, mode, deny, missing_ok) ==
    Observed([Call("suset", flavour, subject, subject, <<>>, {}, mask, mode, deny,
                   missing_ok, "none") EXCEPT !.pattern = pattern],
             suset_glob(StoreOf(flavour), subject, pattern, mask, mode, deny,
                        missing_ok))

\* executor.set(executor, target, pattern, ...), pattern a string with a glob
\* character
SetGlob(flavour, executor, target, pattern, mask, mode, deny, missing_ok, ctx) ==
    Observed([Call("set", flavour, executor, target, <<>>, {}, mask, mode, deny,
                   missing_ok, ctx) EXCEPT !.pattern = pattern],
             set_glob(StoreOf(flavour), executor, target, pattern, mask, mode, deny,
                      missing_ok, ctx))

\* service.has_permission(user, resource_id, required_mask, context)
HasPermission(flavour, user, resource_id, required_mask, ctx) ==
    Observed(Call("has_permission", flavour, user, user, resource_id, {},
                  required_mask, "", FALSE, FALSE, ctx),
             has_permission(StoreOf(flavour), user.id, resource_id, required_mask, ctx))

\* executor.test(subject, path, required_mask, missing_ok, context)
Test(flavour, subject, path, required_mask, missing_ok, ctx) ==
    Observed(Call("test", flavour, subject, subject, path, {}, required_mask, "",
                  FALSE, missing_ok, ctx),
             test(StoreOf(flavour), subject, path, required_mask, missing_ok, ctx))

-----------------------------------------------------------------------------
(* The evaluation specification: stores built by define, assign, depend and *)
(* inherit over the tree a / a.b, and get_effective_permissions on them.    *)

DefineInputs == {<<PA, "INHERIT">>, <<PB, "INHERIT">>, <<PB, "MERGE">>}

AssignMasks == {<<7, 0>>, <<3, 6>>}

\* <<target subject, target resource, dependency subject, dependency path, required>>
DependInputs ==
    {<<U, PB, U, PA, 3>>, <<U, PA, U, PB, 4>>, <<U, PA, H, PA, 4>>,
     <<H, PA, U, PA, 4>>, <<H, PB, U, PA, 4>>}

InheritInputs == {<<U, G>>, <<G, H>>}

Next ==
    \/ \E d \in DefineInputs : Define(d[1], d[2])
    \/ \E subject \in {U, H}, path \in {PA, PB}, m \in AssignMasks :
         Assign(subject, path, m[1], m[2])
    \/ \E d \in DependInputs : Depend(d[1], d[2], d[3], d[4], d[5])
    \/ \E c \in InheritInputs : Inherit(c[1], c[2])
    \/ \E rid \in ResourceIds(Store) : Evaluate("sync", U, rid, "none")

Spec == Init /\ [][Next]_vars

-----------------------------------------------------------------------------
(* The executor specification: stores built by define, assign, depend and   *)
(* inherit, and the calls of PermissionExecutor on them.                    *)

ExecDefineInputs == {<<PB, "MERGE">>, <<PB, "INHERIT">>}

\* <<subject, path, allow, deny>>
ExecAssignInputs ==
    {<<U, PA, 2, 0>>, <<U, PA, 7, 0>>, <<U, PB, 6, 0>>, <<G, PB, 1, 4>>}

\* <<subject, path, mask>>
SusetInputs == {<<U, PA, 5>>, <<U, PB, 5>>, <<U, PB, 0>>, <<G, PB, 5>>, <<G, PA, 3>>}

ExecNext ==
    \/ \E d \in ExecDefineInputs : Define(d[1], d[2])
    \/ \E x \in ExecAssignInputs : Assign(x[1], x[2], x[3], x[4])
    \/ Depend(U, PB, U, PA, VISIT)
    \/ Inherit(U, G)
    \/ \E x \in SusetInputs : SuSet("sync", x[1], x[2], x[3], "=", FALSE, FALSE)
    \/ \E path \in {PA, PB}, missing_ok \in BOOLEAN :
         Set("sync", U, U, path, 7, "=", FALSE, missing_ok, "none")
    \/ SetMatching("sync", U, U, {PA, PB}, 7, "=", FALSE, FALSE, "none")
    \/ \E flavour \in Flavours, path \in {PA, PB} :
         Get(flavour, U, path, FALSE, "none")

ExecSpec == Init /\ [][ExecNext]_vars

-----------------------------------------------------------------------------
(* The strategy specification: strategies registered on the engine, and the *)
(* masks of a user and of a role with them.                                 *)

\* <<subject, path, allow, deny>>
StrategyAssignInputs == {<<U, PA, 3, 0>>, <<G, PA, 4, 0>>, <<U, PB, 6, 0>>}

StrategyNext ==
    \/ \E kind \in StrategyKinds : RegisterStrategy(kind)
    \/ \E x \in StrategyAssignInputs : Assign(x[1], x[2], x[3], x[4])
    \/ Depend(U, PB, U, PA, VISIT)
    \/ \E rid \in ResourceIds(Store), ctx \in Contexts : Evaluate("sync", U, rid, ctx)
    \/ \E subject \in {U, G}, path \in {PA, PB}, ctx \in Contexts :
         SuGet("sync", subject, path, FALSE, ctx)

StrategySpec == Init /\ [][StrategyNext]_vars

-----------------------------------------------------------------------------
(* The membership specification: roles granted through inherit and through  *)
(* the track g < h, and the masks of the user with them.                    *)

\* <<subject, path, allow, deny>>
TrackAssignInputs ==
    {<<G, PA, 1, 0>>, <<H, PA, 4, 2>>, <<U, PA, 2, 0>>, <<H, PB, 6, 0>>, <<G, PB, 3, 4>>}

\* <<target subject, target resource, dependency subject, dependency path, required>>
TrackDependInputs == {<<H, PB, U, PA, MODIFY>>, <<U, PA, U, PB, VISIT>>}

TrackNext ==
    \/ Define(PB, "MERGE")
    \/ \E x \in TrackAssignInputs : Assign(x[1], x[2], x[3], x[4])
    \/ \E d \in TrackDependInputs : Depend(d[1], d[2], d[3], d[4], d[5])
    \/ \E c \in {<<U, G>>, <<H, G>>, <<G, H>>} : Inherit(c[1], c[2])
    \/ \E step \in 1..2 : PromoteTrack(U, step)
    \/ \E level_index \in (0 - 1)..2 : SetUserTrackLevel(U, level_index)
    \/ \E rid \in ResourceIds(Store) : Evaluate("sync", U, rid, "none")

TrackSpec == Init /\ [][TrackNext]_vars

-----------------------------------------------------------------------------
(* The dependency-order specification: an entry of u on a.b with up to      *)
(* MaxDeps dependencies, on h and on u at a and on itself, listed in any    *)
(* order.                                                                   *)

\* <<target subject, target resource, dependency subject, dependency path, required>>
OrderDependInputs ==
    {<<U, PB, H, PA, VISIT>>, <<U, PB, U, PA, MODIFY>>, <<U, PB, U, PB, VISIT>>}

OrderNext ==
    \/ Assign(U, PB, 7, 0)
    \/ \E allow_mask \in {2, 4, 6} : Assign(H, PA, allow_mask, 0)
    \/ \E d \in OrderDependInputs : Depend(d[1], d[2], d[3], d[4], d[5])
    \/ Inherit(U, H)
    \/ \E rid \in ResourceIds(Store) : Evaluate("sync", U, rid, "none")

OrderSpec == Init /\ [][OrderNext]_vars

-----------------------------------------------------------------------------
(* The lookup specification: strategies that go by the context and that     *)
(* call permission_lookup, on entries of u and of g that depend on each     *)
(* other's masks, evaluated by both services.                               *)

LookupKinds == {"owner_all", "as_role_g_plain"}

\* <<subject, path, allow>>
LookupAssignInputs == {<<G, PB, 4>>, <<U, PB, 2>>, <<G, PA, 4>>}

\* <<target subject, target resource, dependency subject, dependency path, required>>
LookupDependInputs ==
    {<<G, PB, U, PA, VISIT>>, <<U, PB, G, PB, VISIT>>, <<G, PA, U, PA, VISIT>>}

LookupNext ==
    \/ \E kind \in LookupKinds : RegisterStrategy(kind)
    \/ \E x \in LookupAssignInputs : Assign(x[1], x[2], x[3], 0)
    \/ \E d \in LookupDependInputs : Depend(d[1], d[2], d[3], d[4], d[5])
    \/ \E flavour \in Flavours, rid \in ResourceIds(Store), ctx \in Contexts :
         Evaluate(flavour, U, rid, ctx)

LookupSpec == Init /\ [][LookupNext]_vars

-----------------------------------------------------------------------------
(* The ladder specification: a user moved along the track g < h, beside     *)
(* roles granted through inherit, to the user and between the level roles.  *)

LadderNext ==
    \/ \E role \in {G, H} : Inherit(U, role)
    \/ Inherit(G, H)
    \/ \E level_index \in (0 - 2)..3 : SetUserTrackLevel(U, level_index)
    \/ \E step \in 1..3 : PromoteTrack(U, step)
    \/ \E step \in 1..3 : DemoteTrack(U, step)

LadderSpec == Init /\ [][LadderNext]_vars

-----------------------------------------------------------------------------
(* The expansion specification: role graphs built by inherit, loops and     *)
(* cycles included, and expand_roles on lists of ids, "x" being the id of   *)
(* no role.                                                                 *)

RoleIdLists ==
    {<<>>} \cup {<<a>> : a \in {"g", "h", "x"}}
           \cup {<<a, b>> : a \in {"g", "h", "x"}, b \in {"g", "h", "x"}}

ExpandNext ==
    \/ \E child \in {G, H}, parent \in {G, H} : Inherit(child, parent)
    \/ \E role_ids \in RoleIdLists : ExpandRoles(role_ids)

ExpandSpec == Init /\ [][ExpandNext]_vars

-----------------------------------------------------------------------------
(* The tree specification: the calls that make resources, on paths of one   *)
(* to three levels, given as ids and with separators to be stripped.        *)

\* <<path, inherit_mode>>
TreeDefineInputs == {<<PA, "OVERRIDE">>, <<PD, "INHERIT">>, <<PC, NoMode>>}

TreeNext ==
    \/ \E d \in TreeDefineInputs : DefineObserved(d[1], d[2])
    \/ Assign(U, PB, 7, 0)
    \/ Depend(U, PB, G, PQ, VISIT)
    \/ SuSet("sync", G, PC, 5, "=", FALSE, TRUE)
    \/ Set("sync", U, G, PQ, 5, "=", FALSE, TRUE, "none")

TreeSpec == Init /\ [][TreeNext]_vars

-----------------------------------------------------------------------------
(* The surface specification: the reads of the service and of both          *)
(* executors and the writes of the executors, on a path that exists in some *)
(* stores and not in others, with and without missing_ok.                   *)

SurfaceReads ==
    \/ \E rid \in ResourceIds(Store) : Evaluate("sync", U, rid, "none")
    \/ \E rid \in ResourceIds(Store), required_mask \in {MODIFY, 5} :
         HasPermission("sync", U, rid, required_mask, "none")
    \/ \E subject \in {U, G}, missing_ok \in BOOLEAN :
         SuGet("sync", subject, PB, missing_ok, "none")
    \/ \E subject \in {U, G}, required_mask \in {MODIFY, 5}, missing_ok \in BOOLEAN :
         Test("sync", subject, PB, required_mask, missing_ok, "none")
    \/ \E flavour \in Flavours, missing_ok \in BOOLEAN :
         Get(flavour, U, PB, missing_ok, "none")

\* <<flavour, deny, missing_ok>>; function.py has no deny parameter
SurfaceSusetInputs ==
    {<<"sync", FALSE, FALSE>>, <<"sync", FALSE, TRUE>>, <<"async", TRUE, FALSE>>}

SurfaceWrites ==
    \/ \E w \in SurfaceSusetInputs : SuSet(w[1], G, PB, 5, "=", w[2], w[3])
    \/ \E flavour \in Flavours, missing_ok \in BOOLEAN :
         Set(flavour, U, G, PB, 5, "=", FALSE, missing_ok, "none")

SurfaceNext ==
    \/ \E path \in {PA, PB} : Define(path, "MERGE")
    \/ Assign(U, PA, 7, 0)
    \/ Inherit(U, G)
    \/ SurfaceReads
    \/ SurfaceWrites

SurfaceSpec == Init /\ [][SurfaceNext]_vars

-----------------------------------------------------------------------------
(* The chmod specification: set and suset of both executors with every      *)
(* chmod mode and with one that is none, on either side of the entry.       *)

ChmodWriteModes == ChmodModes \cup {"x"}

\* <<flavour, mode, deny, missing_ok>>; function.py has no deny parameter
ChmodInputs ==
    {<<"sync", mode, FALSE, FALSE>> : mode \in ChmodWriteModes}
    \cup {<<"async", mode, TRUE, FALSE>> : mode \in ChmodWriteModes}
    \cup {<<"async", "-", FALSE, FALSE>>, <<"sync", "x", FALSE, TRUE>>}

ChmodNext ==
    \/ Define(PB, "MERGE")
    \/ \E x \in {<<U, PA, 7, 0>>, <<G, PB, 6, 0>>} : Assign(x[1], x[2], x[3], x[4])
    \/ Depend(G, PB, U, PA, VISIT)
    \/ \E w \in ChmodInputs : SuSet(w[1], G, PB, 5, w[2], w[3], w[4])
    \/ \E w \in ChmodInputs : Set(w[1], U, G, PB, 5, w[2], w[3], w[4], "none")
    \/ \E accepted \in {{PA, PB}, {PQ}} :
         SetMatching("sync", U, G, accepted, 5, "x", FALSE, FALSE, "none")

ChmodSpec == Init /\ [][ChmodNext]_vars

-----------------------------------------------------------------------------
(* The pattern specification: suset and set with glob patterns on trees of  *)
(* one to three levels beside a second root.                                *)

\* 'a.*', '*', '[aq]' and '.?.b.'
GlobPatterns ==
    {<<"a", ".", "*">>, <<"*">>, <<"[", "a", "q", "]">>, <<".", "?", ".", "b", ".">>}

\* <<path, inherit_mode>>
PatternDefineInputs == {<<PB, "OVERRIDE">>, <<PC, "MERGE">>, <<PQ, "MERGE">>}

\* <<flavour, mode, deny>>; function.py has no deny parameter
PatternSusetInputs == {<<"sync", "+", FALSE>>, <<"async", "=", TRUE>>}

PatternNext ==
    \/ \E d \in PatternDefineInputs : Define(d[1], d[2])
    \/ \E allow_mask \in {2, 7} : Assign(U, PA, allow_mask, 0)
    \/ Assign(G, PB, 2, 0)
    \/ \E w \in PatternSusetInputs, pattern \in GlobPatterns :
         SuSetGlob(w[1], G, pattern, 5, w[2], w[3], FALSE)
    \/ SetGlob("sync", U, G, <<"a", "*">>, 5, "=", FALSE, FALSE, "none")

PatternSpec == Init /\ [][PatternNext]_vars

-----------------------------------------------------------------------------
(* The expression specification: Permission.parse on every expression of up *)
(* to MaxExprLen of these characters.                                       *)

ParseChars ==
    {"a", "d", "v", "m", "x", "-", "+", "=", "*", "0", "7", "8", "V", " "}

ParseNext == \E c \in ParseChars : Parse(c)

ParseSpec == Init /\ [][ParseNext]_vars

-----------------------------------------------------------------------------
(* Reference notions the properties are stated with.  They are written from *)
(* the definitions of the terms (closure, dependency graph, fold), with     *)
(* sets, and share nothing with the evaluator above but the store.          *)

SubjectOf(acl) == [type |-> acl.subject_type, id |-> acl.subject_id]

DepSubject(dep) == [type |-> dep.subject_type, id |-> dep.subject_id]

\* the least set of role ids holding S and closed under the parents of roles
RECURSIVE RoleClosure(_, _)
RoleClosure(st, S) ==
    LET more == S \cup UNION {Range(st.roles[r]) : r \in S \cap DOMAIN st.roles}
    IN IF more = S THEN S ELSE RoleClosure(st, more)

\* the subjects whose ACL entries count for subject s
RefRelevant(st, s) ==
    IF s.type = USER
    THEN {s} \cup {[type |-> ROLE, id |-> r] :
                     r \in RoleClosure(st, Range(st.users[s.id]))}
    ELSE {[type |-> ROLE, id |-> r] : r \in RoleClosure(st, {s.id})}

\* the ids of rid and its ancestors
ChainIds(st, rid) ==
    {get_resource_chain(st, rid)[i].id : i \in 1..Len(get_resource_chain(st, rid))}

\* the entries consulted for key <<s, rid>>: those of a relevant subject on a
\* node of rid's chain
Consulted(st, s, rid) ==
    {i \in 1..Len(st.acls) :
        /\ st.acls[i].resource_id \in ChainIds(st, rid)
        /\ SubjectOf(st.acls[i]) \in RefRelevant(st, s)}

Keys(st) == {<<s, rid>> : s \in Subjects, rid \in ResourceIds(st)}

\* the dependency graph: key k1 needs key k2 when an entry consulted for k1
\* lists k2 as a dependency
DepEdges(st) ==
    UNION {{<<k1, <<DepSubject(st.acls[i].dependencies[n]),
                    st.acls[i].dependencies[n].resource_id>>>> :
               n \in 1..Len(st.acls[i].dependencies)} :
           <<k1, i>> \in {<<k, j>> \in Keys(st) \X (1..Len(st.acls)) :
                            j \in Consulted(st, k[1], k[2])}}

\* the keys reached from the keys of S along the edges E, S included
RECURSIVE ReachFrom(_, _)
ReachFrom(E, S) ==
    LET more == S \cup {e[2] : e \in {x \in E : x[1] \in S}}
    IN IF more = S THEN S ELSE ReachFrom(E, more)

Successors(E, k) == {e[2] : e \in {x \in E : x[1] = k}}

OnCycle(E, k) == k \in ReachFrom(E, Successors(E, k))

\* a cycle of the dependency graph can be reached from key k
CycleReachable(st, k) ==
    LET E == DepEdges(st) IN \E c \in ReachFrom(E, {k}) : OnCycle(E, c)

Acyclic(st) ==
    LET E == DepEdges(st) IN \A e \in E : ~OnCycle(E, e[1])

\* the reference fold of C1, for a store with an acyclic dependency graph
RECURSIVE RefEff(_, _, _)
RefEff(st, s, rid) ==
    LET chain == Reverse(get_resource_chain(st, rid))
        Met(acl) ==
            \A n \in 1..Len(acl.dependencies) :
               LET d == acl.dependencies[n]
               IN HasAll(RefEff(st, DepSubject(d), d.resource_id), d.required_mask)
        App(node) ==
            {i \in Consulted(st, s, rid) :
                st.acls[i].resource_id = node.id /\ Met(st.acls[i])}
        Allow(node) == MaskOf(UNION {BitSet(st.acls[i].allow_mask) : i \in App(node)})
        Deny(node) == MaskOf(UNION {BitSet(st.acls[i].deny_mask) : i \in App(node)})
        eff[i \in 0..Len(chain)] ==
            IF i = 0 THEN 0
            ELSE LET node == chain[i]
                     m == IF node.inherit_mode = "MERGE"
                          THEN BitOr(eff[i - 1], Allow(node))
                          ELSE IF node.inherit_mode = "OVERRIDE" THEN Allow(node)
                          ELSE eff[i - 1]
                 IN BitAndNot(m, Deny(node))
    IN eff[Len(chain)]

IsEvaluate == last.op = "get_effective_permissions"

\* C1: on a store whose dependency graph is acyclic and without strategies,
\* get_effective_permissions(u, r) returns the reference fold of r's chain
\* (allow and deny united over the entries of u and of the roles in the
\* closure of u's roles whose dependencies are met; MERGE adds, OVERRIDE
\* replaces, INHERIT keeps; the node's deny is removed for every mode).
C1_ReferenceFold ==
    (IsEvaluate /\ last.before.strategies = <<>> /\ Acyclic(last.before))
        => /\ last.err = ""
           /\ last.ret = RefEff(last.before, last.subject, last.path)

\* a role entry reached through u -> g -> h, with a met dependency and a deny,
\* decides the mask of a.b below a parent that grants everything
C1_Witness ==
    /\ IsEvaluate /\ last.path = PB /\ last.err = "" /\ Acyclic(last.before)
    /\ last.ret = 1
    /\ RefEff(last.before, U, PA) = 7
    /\ \E i \in Consulted(last.before, U, PB) :
          LET acl == last.before.acls[i] IN
          /\ SubjectOf(acl) = H /\ acl.resource_id = PB /\ acl.deny_mask = 6
          /\ Len(acl.dependencies) = 1
          /\ acl.dependencies[1].resource_id = PA
          /\ acl.dependencies[1].subject_id = "u"

-----------------------------------------------------------------------------
(* Applicable entries, as the system itself evaluates their dependencies.   *)

\* the mask of subject s on rid: strategies for a user, static for a role
EffOf(st, s, rid) ==
    IF s.type = USER THEN get_effective_permissions(st, s.id, rid, "none")
    ELSE static_permissions(st, s, rid, "none")

\* (mask of the dependency's subject on its resource & required) = required
DepMet(st, dep) ==
    LET e == EffOf(st, DepSubject(dep), dep.resource_id)
    IN e.err = "" /\ HasAll(e.mask, dep.required_mask)

MetAll(st, acl) == \A n \in 1..Len(acl.dependencies) : DepMet(st, acl.dependencies[n])

\* the entries on node that apply to s: of s or of a role s inherits, all
\* dependencies met
Applicable(st, s, node_id) ==
    {i \in 1..Len(st.acls) :
        /\ st.acls[i].resource_id = node_id
        /\ SubjectOf(st.acls[i]) \in RefRelevant(st, s)
        /\ MetAll(st, st.acls[i])}

AllowOf(st, I) == MaskOf(UNION {BitSet(st.acls[i].allow_mask) : i \in I})

DenyOf(st, I) == MaskOf(UNION {BitSet(st.acls[i].deny_mask) : i \in I})

StrictAncestors(st, rid) == ChainIds(st, rid) \ {rid}

\* the nodes of rid's chain strictly below anc, rid included
Below(st, anc, rid) == {n \in ChainIds(st, rid) : anc \in StrictAncestors(st, n)}

\* an entry applying to s on ancestor anc of rid denies VISIT
DeniesVisitAt(st, s, anc) == HasAll(DenyOf(st, Applicable(st, s, anc)), VISIT)

OwnEntries(st, s, rid) ==
    {i \in 1..Len(st.acls) : IsPrimaryFor(st.acls[i], s, rid)}

OverrideCase ==
    /\ IsEvaluate /\ last.err = ""
    /\ get_resource(last.before, last.path).inherit_mode = "OVERRIDE"
    /\ last.before.users[last.subject.id] = <<>>
    /\ get_primary_acl(last.before, last.subject, last.path) # 0

\* C8 as stated: on an OVERRIDE resource r a subject without roles that has
\* an explicit entry (A, D) on r gets exactly A & ~D.
C8_OverrideExact ==
    OverrideCase
        => LET acl == last.before.acls[get_primary_acl(last.before, last.subject,
                                                       last.path)]
           IN last.ret = BitAndNot(acl.allow_mask, acl.deny_mask)

\* C8, amended: on an OVERRIDE resource r a subject without roles gets, when
\* the evaluation returns, A & ~D with A and D united over its entries on r
\* whose dependencies are met: an entry with an unmet dependency gives
\* nothing, a second entry of the subject on r adds its bits; ancestors have
\* no part in the mask.
C8_OverrideOfMetEntries ==
    OverrideCase
        => LET I == {i \in OwnEntries(last.before, last.subject, last.path) :
                        MetAll(last.before, last.before.acls[i])}
           IN last.ret = BitAndNot(AllowOf(last.before, I), DenyOf(last.before, I))

\* one entry (3, 6) on a.b with a met dependency, below a parent granting all
C8_Witness ==
    /\ OverrideCase /\ last.path = PB
    /\ AllowOf(last.before, Applicable(last.before, U, PA)) = 7
    /\ \E i \in OwnEntries(last.before, U, PB) :
          /\ OwnEntries(last.before, U, PB) = {i}
          /\ last.before.acls[i].allow_mask = 3
          /\ last.before.acls[i].deny_mask = 6
          /\ last.before.acls[i].dependencies # <<>>
          /\ MetAll(last.before, last.before.acls[i])
    /\ last.ret = 1

-----------------------------------------------------------------------------
(* Dependency cycles.                                                       *)

\* a key as the evaluator writes it, as a key of the dependency graph
KeyOf(c) == <<[type |-> c[1], id |-> c[2]], c[3]>>

StartKey == <<last.subject, last.path>>

\* the edges the evaluation follows: a dependency is examined when the ones
\* listed before it in its entry are met
ExaminedEdges(st) ==
    UNION {{<<k1, <<DepSubject(st.acls[i].dependencies[n]),
                    st.acls[i].dependencies[n].resource_id>>>> :
               n \in {x \in 1..Len(st.acls[i].dependencies) :
                        \A y \in 1..(x - 1) : DepMet(st, st.acls[i].dependencies[y])}} :
           <<k1, i>> \in {<<k, j>> \in Keys(st) \X (1..Len(st.acls)) :
                            j \in Consulted(st, k[1], k[2])}}

ExaminedCycleReachable(st, k) ==
    LET E == ExaminedEdges(st) IN \E c \in ReachFrom(E, {k}) : OnCycle(E, c)

\* C7 as stated: when a cycle of the dependency graph is reachable from the
\* starting key, get_effective_permissions raises DependencyCycle.
C7_CycleAlwaysRaised ==
    (IsEvaluate /\ CycleReachable(last.before, StartKey))
        => last.err = "DependencyCycle"

\* C7, amended: the evaluation always ends, with a mask or with
\* DependencyCycle; it raises DependencyCycle exactly when a cycle is
\* reachable from the starting key along the dependencies it examines (a
\* dependency listed after an unmet one of the same entry is not examined,
\* and a cycle reachable only through it goes unreported); the reported chain
\* starts and ends with the same key, each key depends on the next, and every
\* key of it lies on a cycle.
C7_ExaminedCycleRaised ==
    IsEvaluate =>
      /\ last.err \in {"", "DependencyCycle"}
      /\ last.err = "DependencyCycle" <=> ExaminedCycleReachable(last.before, StartKey)
      /\ last.err = "DependencyCycle" =>
            LET c == last.cycle
                E == DepEdges(last.before)
            IN /\ Len(c) >= 2
               /\ c[1] = c[Len(c)]
               /\ \A n \in 1..(Len(c) - 1) : <<KeyOf(c[n]), KeyOf(c[n + 1])>> \in E
               /\ \A n \in 1..Len(c) : OnCycle(E, KeyOf(c[n]))
               /\ \A n, n2 \in 1..(Len(c) - 1) : c[n] = c[n2] => n = n2

\* two entries depending on each other: the chain holds both keys
C7_Witness ==
    /\ IsEvaluate /\ last.err = "DependencyCycle"
    /\ Len(last.cycle) = 3
    /\ last.cycle[1] = <<USER, "u", PA>>
    /\ last.cycle[2] = <<ROLE, "h", PA>>
    /\ last.cycle[3] = <<USER, "u", PA>>

-----------------------------------------------------------------------------
(* Dependencies gate entries.                                               *)

\* node_allow and node_deny of node_id as _calc_permissions_for_subject
\* computes them for key <<s, rid>>
NodeFold(st, s, rid, node_id) ==
    FoldAcls(st, iter_acls_for_resource(st, node_id), 1,
             RelevantSubjects(st, s.type, s.id), "none", NONE, NONE,
             <<CacheKey(s.type, s.id, rid)>>, <<>>, RecursionLimit - 1)

\* the entry at index i contributes to its node's fold for subject s
Contributes(st, s, i) ==
    LET acl == st.acls[i]
        nf == NodeFold(st, s, acl.resource_id, acl.resource_id)
    IN /\ nf.err = ""
       /\ HasAll(nf.mask, acl.allow_mask)
       /\ HasAll(nf.deny, acl.deny_mask)

\* C9, in every state: an evaluation that returns has folded, at every node
\* of the chain, the allow and the deny bits of exactly the entries of the
\* relevant subjects whose dependencies are all met; an evaluation fails only
\* where a dependency cycle is reachable, never for an unmet dependency.
C9_Gated ==
    IsEvaluate =>
      /\ last.err # "" => CycleReachable(last.before, StartKey)
      /\ last.err = "" =>
            \A n \in ChainIds(last.before, last.path) :
               LET nf == NodeFold(last.before, last.subject, last.path, n)
                   I == Applicable(last.before, last.subject, n)
               IN /\ nf.err = ""
                  /\ nf.mask = AllowOf(last.before, I)
                  /\ nf.deny = DenyOf(last.before, I)

\* C9, across a mutation: an entry with an unmet dependency (dropped, by
\* C9_Gated) contributes to the evaluation of the next store once the
\* mutation has made its dependencies met.
C9_Reincluded ==
    \A i \in 1..Len(acls) :
       (/\ i <= Len(acls')
        /\ acls'[i] = acls[i]
        /\ SubjectOf(acls[i]) \in RefRelevant(Store, U)
        /\ SubjectOf(acls[i]) \in RefRelevant(Store', U)
        /\ ~MetAll(Store, acls[i])
        /\ MetAll(Store', acls[i])
        /\ EffOf(Store', U, acls[i].resource_id).err = "")
           => Contributes(Store', U, i)

-----------------------------------------------------------------------------
(* The executor's calls, as last shows them.                                *)

\* the store the last call was made on, as its flavour sees it
Before == [last.before EXCEPT !.flavour = last.flavour]

IsSetPath == last.op = "set" /\ last.path # <<>>

IsSetPattern == last.op = "set" /\ last.path = <<>>

\* the ACL entries on r, in insertion order
EntriesOn(st, r) == SelectSeq(st.acls, LAMBDA acl : acl.resource_id = r)

\* the call left r's node and every ACL entry on r as they were
Untouched(r) ==
    /\ HasResource(Store, r)
    /\ get_resource(Store, r) = get_resource(last.before, r)
    /\ EntriesOn(Store, r) = EntriesOn(last.before, r)

\* the executor's mask on r before the call returns and lacks MODIFY
LacksModifyBefore(r) ==
    /\ EffOf(Before, last.subject, r).err = ""
    /\ ~HasAll(EffOf(Before, last.subject, r).mask, MODIFY)

\* the existing resources the pattern of the last call accepts
Matched == {r \in ResourceIds(last.before) : Strip(r) \in last.accepted}

C3_ParentGate ==
    IsSetPath =>
      /\ \A parent \in StrictAncestors(last.before, Strip(last.path)) :
            (/\ get_resource(last.before, Strip(last.path)).parent_id = parent
             /\ EffOf(Before, last.subject, parent).err = ""
             /\ ~HasAll(EffOf(Before, last.subject, parent).mask, RequiredParent))
               => last.err = "PermissionDenied"
      /\ last.err = "PermissionDenied" => Store = last.before

\* get on an existing resource whose evaluation returns
IsGetOnExisting ==
    /\ last.op = "get"
    /\ HasResource(last.before, Strip(last.path))
    /\ EffOf(Before, last.subject, Strip(last.path)).err = ""

\* C4: get on an existing resource returns the executor's mask on it when the
\* mask holds VISIT and raises PermissionDenied when it does not, the mask on
\* the parent playing no part.
C4_GetBySelfMask ==
    IsGetOnExisting =>
      IF HasAll(EffOf(Before, last.subject, Strip(last.path)).mask, VISIT)
      THEN /\ last.err = ""
           /\ last.ret = EffOf(Before, last.subject, Strip(last.path)).mask
      ELSE last.err = "PermissionDenied"

\* suset(s, r, mask, "=") on a single path has returned
IsSuset == last.op = "suset" /\ last.path # <<>> /\ last.mode = "=" /\ last.err = ""

\* what suget(s, r) gives right after the call
SugetAfter == suget(Store, last.subject, last.path, FALSE, "none")

\* no entry of s or of a role s inherits carries a deny bit on r or above it
NoDeny(st, s, r) ==
    \A i \in 1..Len(st.acls) :
       (st.acls[i].resource_id \in ChainIds(st, r)
          /\ SubjectOf(st.acls[i]) \in RefRelevant(st, s))
         => st.acls[i].deny_mask = 0

OnlyPrimaryApplies(st, s, r) == Applicable(st, s, r) = {get_primary_acl(st, s, r)}

-----------------------------------------------------------------------------
(* The strategy chain.                                                      *)

\* get_effective_permissions or suget has returned a mask
IsMaskCall ==
    /\ last.op \in {"get_effective_permissions", "suget"}
    /\ last.err = ""
    /\ last.ret # NoneRet

\* what one strategy returns for the running mask
StrategyResult(st, kind, rid, ctx, mask) ==
    CASE kind = "owner_all" -> IF ctx = "owner" THEN 7 ELSE mask
      [] kind = "drop_modify" -> BitAndNot(mask, MODIFY)
      [] kind = "grant_visit" -> BitOr(mask, VISIT)
      [] kind = "as_role_g" -> BitOr(mask, static_permissions(st, G, rid, ctx).mask)

\* the strategies of st from the i-th on, one after another on mask
RECURSIVE InRegistrationOrder(_, _, _, _, _)
InRegistrationOrder(st, i, rid, ctx, mask) ==
    IF i > Len(st.strategies) THEN mask
    ELSE InRegistrationOrder(st, i + 1, rid, ctx,
                             StrategyResult(st, st.strategies[i], rid, ctx, mask))

\* the static mask of the subject of the last call
StaticOfLast == static_permissions(Before, last.subject, Strip(last.path), last.ctx).mask

\* C10: the mask of a user is what the registered strategies make of the
\* static mask, applied one after another in registration order, each on the
\* mask the one before returned; the mask of a role is the static mask, no
\* strategy applied.
C10_StrategiesInOrder ==
    IsMaskCall =>
      last.ret = IF last.subject.type = USER
                 THEN InRegistrationOrder(Before, 1, Strip(last.path), last.ctx,
                                          StaticOfLast)
                 ELSE StaticOfLast

\* owner_all then drop_modify on u's static 3 in the owner's context: 7, then
\* 5; the other order would leave 7
C10_Witness ==
    /\ IsMaskCall /\ last.op = "get_effective_permissions" /\ last.subject = U
    /\ last.ctx = "owner"
    /\ last.before.strategies = <<"owner_all", "drop_modify">>
    /\ StaticOfLast = 3
    /\ last.ret = 5

-----------------------------------------------------------------------------
(* Role memberships.                                                        *)

\* the entries of s or of a role of s's closure on r or above it
ChainEntries(st, s, r) ==
    {i \in 1..Len(st.acls) :
        /\ st.acls[i].resource_id \in ChainIds(st, r)
        /\ SubjectOf(st.acls[i]) \in RefRelevant(st, s)}

\* C11: when an evaluation for user u on a resource r that is not INHERIT
\* returns, every bit that a dependency-free entry on r of u or of a role in
\* the closure of u's memberships allows, and that no applicable entry on r
\* denies, is in the mask, and the mask holds no bit but those allowed by
\* entries of u and of the closure's roles; the closure is that of the
\* memberships at the time of the call.
C11_RoleClosureGrants ==
    (IsEvaluate /\ last.err = ""
       /\ get_resource(last.before, last.path).inherit_mode # "INHERIT")
      => /\ \A i \in 1..Len(last.before.acls) :
               (/\ last.before.acls[i].resource_id = last.path
                /\ SubjectOf(last.before.acls[i]) \in RefRelevant(last.before, last.subject)
                /\ last.before.acls[i].dependencies = <<>>)
                 => HasAll(last.ret,
                           BitAndNot(last.before.acls[i].allow_mask,
                                     DenyOf(last.before,
                                            Applicable(last.before, last.subject,
                                                       last.path))))
         /\ HasAll(AllowOf(last.before,
                           ChainEntries(last.before, last.subject, last.path)),
                   last.ret)

\* u was moved up the track to h, which inherits g: g's AVAILABLE on a and
\* h's VISIT are in u's mask
C11_Witness ==
    /\ IsEvaluate /\ last.err = "" /\ last.path = PA
    /\ last.before.users["u"] = <<"h">>
    /\ last.before.roles["h"] = <<"g">>
    /\ \E i \in 1..Len(last.before.acls) :
          /\ SubjectOf(last.before.acls[i]) = G
          /\ last.before.acls[i].resource_id = PA
          /\ last.before.acls[i].allow_mask = 1
    /\ \E i \in 1..Len(last.before.acls) :
          /\ SubjectOf(last.before.acls[i]) = H
          /\ last.before.acls[i].resource_id = PA
    /\ last.ret = 5

-----------------------------------------------------------------------------
(* Role expansion.                                                          *)

\* the lists that hold each element of S once
Orderings(S) == {q \in [1..Cardinality(S) -> S] : Range(q) = S}

\* C12: expand_roles(X) returns the ids of the existing roles reachable from X
\* along parent_role_ids, whatever loops and cycles the role graph has, and
\* expanding the returned set again, in any order, returns the same set.
C12_ExpandIsClosure ==
    last.op = "expand_roles" =>
      /\ last.ret = RoleClosure(last.before, Range(last.path))
                       \cap DOMAIN last.before.roles
      /\ \A q \in Orderings(last.ret) :
            expand_roles(q, last.before.roles) = last.ret

\* g and h inherit each other and g itself; from the unknown id and g the
\* expansion gives g and h
C12_Witness ==
    /\ last.op = "expand_roles" /\ last.path = <<"x", "g">>
    /\ last.before.roles["g"] = <<"g", "h">>
    /\ last.before.roles["h"] = <<"g">>
    /\ last.ret = {"g", "h"}

-----------------------------------------------------------------------------
(* Orders.                                                                  *)

\* the lists holding the elements of q in another order, q itself included
Reorderings(q) ==
    {[i \in 1..Len(q) |-> q[f[i]]] : f \in Orderings(1..Len(q))}

\* the stores that differ from st in the insertion order of the ACL entries and
\* in the order of the role ids of u, g and h only
Reordered(st) ==
    {[st EXCEPT !.acls = a, !.users = [id \in {"u"} |-> ru],
                !.roles = [id \in {"g", "h"} |-> IF id = "g" THEN rg ELSE rh]] :
        a \in Reorderings(st.acls), ru \in Reorderings(st.users["u"]),
        rg \in Reorderings(st.roles["g"]), rh \in Reorderings(st.roles["h"])}

\* the mask returned, or the exception
Outcome(r) == <<r.err, IF r.err = "" THEN r.mask ELSE NoneRet>>

\* C13: an evaluation returns the same mask, or raises DependencyCycle all the
\* same, on every store that differs in the insertion order of the ACL entries
\* and in the order of the role ids of the user and of the roles.
C13_OrderIndependent ==
    IsEvaluate =>
      \A st \in Reordered(Before) :
         Outcome(get_effective_permissions(st, last.subject.id, last.path, last.ctx))
            = <<last.err, last.ret>>

\* two entries that apply to u on a, of g and of h, u holding h before g
C13_Witness ==
    /\ IsEvaluate /\ last.err = "" /\ last.path = PA /\ last.ret = 5
    /\ last.before.users["u"] = <<"h", "g">>
    /\ Len(last.before.acls) = 2
    /\ \A i \in 1..2 : last.before.acls[i].resource_id = PA
    /\ last.before.acls[1].allow_mask # last.before.acls[2].allow_mask
    /\ Cardinality(Reordered(Before)) >= 4

-----------------------------------------------------------------------------
(* The reads of the surface.                                                *)

ReadOps == {"get_effective_permissions", "has_permission", "suget", "test", "get"}

IsRead == last.op \in ReadOps

\* the subject of the last call evaluated now, on a visited list and a cache
\* of its own
FreshEval ==
    IF last.subject.type = ROLE
    THEN calc_permissions_for_subject(StoreOf(last.flavour), ROLE, last.subject.id,
                                      Strip(last.path), last.ctx, <<>>, <<>>,
                                      RecursionLimit)
    ELSE get_effective_permissions_for_subject(StoreOf(last.flavour), USER,
                                               last.subject.id, Strip(last.path),
                                               last.ctx, <<>>, <<>>, RecursionLimit)

\* the call of last without its outcome
CallOf(c) ==
    [c EXCEPT !.err = "", !.ret = NoneRet, !.cycle = <<>>, !.trace = <<>>,
              !.before = EmptyStore]

\* a read leaves the store as it found it, and what it returned on an existing
\* resource is what an evaluation made now returns
C14_ReadsPure ==
    IsRead =>
      /\ Store = last.before
      /\ (last.err = "" /\ HasResource(Store, Strip(last.path))) =>
           /\ FreshEval.err = ""
           /\ IF last.op \in {"has_permission", "test"}
              THEN last.ret = HasAll(FreshEval.mask, last.mask)
              ELSE last.ret = FreshEval.mask

\* a read repeated right after itself ends as it did the first time
C14_Repeatable ==
    (IsRead /\ IsRead' /\ CallOf(last') = CallOf(last)) =>
      /\ last'.err = last.err
      /\ last'.ret = last.ret
      /\ UNCHANGED <<resources, users, roles, acls, strategies>>

-----------------------------------------------------------------------------
(* The ACL table.                                                           *)

SameKey(a, b) ==
    /\ a.subject_type = b.subject_type
    /\ a.subject_id = b.subject_id
    /\ a.resource_id = b.resource_id

\* C15: assign on a (subject, resource) that has a primary ACL adds nothing,
\* so the ACL table never holds two entries of one subject on one resource.
C15_OnePrimaryPerKey ==
    \A i, j \in 1..Len(acls) : SameKey(acls[i], acls[j]) => i = j

-----------------------------------------------------------------------------
(* The writes of the executors.                                             *)

IsWrite == last.op \in {"set", "suset"}

\* the side of the entry the last call was to change
DenySide == last.flavour = "async" /\ last.deny

\* the mask on one side of the primary ACL of s on r, 0 without one
SideOf(st, s, r, deny_side) ==
    LET k == get_primary_acl(st, s, r)
    IN IF k = 0 THEN 0
       ELSE IF deny_side THEN st.acls[k].deny_mask ELSE st.acls[k].allow_mask

\* '=' gives mask, '+' old | mask, '-' old & ~mask
ChmodOf(old, mask, mode) ==
    MaskOf(IF mode = "=" THEN BitSet(mask)
           ELSE IF mode = "+" THEN BitSet(old) \cup BitSet(mask)
           ELSE BitSet(old) \ BitSet(mask))

\* the nodes the last call wrote on
WrittenIds == {last.trace[n].id : n \in {m \in 1..Len(last.trace) : last.trace[m].written}}

\* every node written by a set or suset with one of the three modes holds, on
\* the side chosen, the mask computed from the one it held
C16_Computes ==
    (IsWrite /\ last.mode \in ChmodModes /\ last.err = "") =>
      \A r \in WrittenIds :
        SideOf(Store, last.target, r, DenySide)
          = ChmodOf(SideOf(Before, last.target, r, DenySide), last.mask, last.mode)

\* a set or suset with any other mode raises and leaves the store as it was;
\* the exception is the one of the mode unless the lookup of the resource or
\* the gate on the parent raised first
C16_InvalidOpFails ==
    (IsWrite /\ last.mode \notin ChmodModes) =>
      /\ last.err \in {"ValueError", "ResourceNotFound", "PermissionDenied"}
      /\ Store = last.before

WithValidMode ==
    IF last.op = "suset"
    THEN suset(Before, last.target, last.path, last.mask, "=", last.deny,
               last.missing_ok)
    ELSE IF last.path # <<>>
    THEN set(Before, last.subject, last.target, last.path, last.mask, "=",
             last.deny, last.missing_ok, last.ctx)
    ELSE set_matching(Before, last.subject, last.target, last.accepted, last.mask,
                      "=", last.deny, last.missing_ok, last.ctx)

Writes(r) == \E n \in 1..Len(r.trace) : r.trace[n].written

\* the resources after _ensure_resource_for_set on the path of the last call
EnsuredResources ==
    IF last.path # <<>>
    THEN ensure_resource_for_set(Before, Strip(last.path), last.missing_ok).st.resources
    ELSE Before.resources

\* a call with a mode that is none: r is the same call made with '='
InvalidOpAgainst(r) ==
    /\ acls = Before.acls
    /\ IF Writes(r)
       THEN last.err = "ValueError" /\ resources = EnsuredResources
       ELSE last.err = r.err /\ resources = r.st.resources

\* a set or suset with any other mode leaves the ACL table as it was, raises
\* the error of the mode where the call made with '=' writes, and ends as that
\* call does where it writes nothing
C16_InvalidOpWhereWritten ==
    (IsWrite /\ last.mode \notin ChmodModes) => InvalidOpAgainst(WithValidMode)

OthersKept(k) ==
    \A i \in 1..Len(Before.acls) : i # k => (i <= Len(acls) /\ acls[i] = Before.acls[i])

\* the primary ACL of the target on r after the last call, given the one before
SideWritten(r, kb, ka) ==
    /\ ka # 0
    /\ SideOf(Store, last.target, r, DenySide)
         = ChmodOf(SideOf(Before, last.target, r, DenySide), last.mask, last.mode)
    /\ IF kb # 0
       THEN /\ ka = kb
            /\ Len(acls) = Len(Before.acls)
            /\ SideOf(Store, last.target, r, ~DenySide)
                 = SideOf(Before, last.target, r, ~DenySide)
            /\ acls[ka].dependencies = Before.acls[kb].dependencies
       ELSE /\ ka = Len(acls)
            /\ Len(acls) = Len(Before.acls) + 1
            /\ SideOf(Store, last.target, r, ~DenySide) = 0
            /\ acls[ka].dependencies = <<>>
    /\ OthersKept(ka)

\* in the ACL table a set or suset that writes changes the selected side of
\* the target's primary ACL only: the other side and the dependencies stay,
\* the selected side becomes the mode applied to its old mask, every other
\* entry stays; and without a primary ACL the entry made has the new mask on
\* the selected side and 0 on the other
C17_EntryFrame ==
    (IsWrite /\ last.path # <<>> /\ last.mode \in ChmodModes /\ last.err = "") =>
      \A r \in WrittenIds :
        SideWritten(r, get_primary_acl(Before, last.target, r),
                    get_primary_acl(Store, last.target, r))

\* a set or suset on a resource that exists leaves the resources as they were
C17_ResourcesKept ==
    (IsWrite /\ last.path # <<>> /\ last.mode \in ChmodModes /\ last.err = ""
       /\ HasResource(Before, Strip(last.path))) =>
      resources = Before.resources

\* C17: set and suset change only the selected side of the target's primary
\* ACL: with deny false the deny mask and the dependencies stay and the allow
\* mask becomes the mode applied to the old allow mask, with deny true the
\* allow mask and the dependencies stay and the deny mask becomes the mode
\* applied to the old deny mask, and without a primary ACL the entry made has
\* the new mask on the selected side and 0 on the other.
C17_OnlySelectedSide == C17_EntryFrame /\ C17_ResourcesKept

-----------------------------------------------------------------------------
(* Calls on a resource that does not exist.                                 *)

ExecutorOps == {"suget", "test", "get", "suset", "set"}

\* the last call was made on a single path whose resource the store lacked
OnMissing ==
    /\ last.op \in ExecutorOps
    /\ last.path # <<>>
    /\ ~HasResource(Before, Strip(last.path))

\* without missing_ok the call raises ResourceNotFound and changes nothing
C18_NotFound ==
    (OnMissing /\ ~last.missing_ok) =>
      last.err = "ResourceNotFound" /\ Store = last.before

\* with missing_ok suget returns None
C18_SugetNone ==
    (OnMissing /\ last.missing_ok /\ last.op = "suget") =>
      last.err = "" /\ last.ret = NoneRet /\ Store = last.before

\* with missing_ok get returns None, whoever the executor is
C18_GetNone ==
    (OnMissing /\ last.missing_ok /\ last.op = "get") =>
      last.err = "" /\ last.ret = NoneRet /\ Store = last.before

\* with missing_ok set changes nothing and raises nothing
C18_SetNoOp ==
    (OnMissing /\ last.missing_ok /\ last.op = "set") =>
      last.err = "" /\ Store = last.before

\* with missing_ok suset makes the resource and the entry
C18_SusetCreates ==
    (OnMissing /\ last.missing_ok /\ last.op = "suset" /\ last.mode \in ChmodModes) =>
      /\ last.err = ""
      /\ HasResource(Store, Strip(last.path))
      /\ SideOf(Store, last.target, Strip(last.path), DenySide)
           = ChmodOf(0, last.mask, last.mode)

\* C18: on a resource that does not exist, suget, test, get, suset and set
\* fail with ResourceNotFound and leave the store unchanged when missing_ok is
\* false; when it is true none of them raises ResourceNotFound, suget and get
\* return None (get for every executor, whatever its mask on the parent), set
\* is a silent no-op that creates nothing, and suset alone creates the
\* resource and sets the ACL.
C18_MissingResource ==
    /\ C18_NotFound
    /\ (OnMissing /\ last.missing_ok) => last.err # "ResourceNotFound"
    /\ C18_SugetNone
    /\ C18_GetNone
    /\ C18_SetNoOp
    /\ C18_SusetCreates

-----------------------------------------------------------------------------
(* test.                                                                    *)

\* required is a subset of mask
Within(required, mask) == BitSet(required) \subseteq BitSet(mask)

\* the last call was test, and r is what suget gives for its arguments
TestAgainst(r) ==
    /\ last.err = r.err
    /\ (r.err = "" /\ r.ret # NoneRet) => last.ret = Within(last.mask, r.ret)
    /\ (r.err = "" /\ r.ret = NoneRet) =>
         /\ last.missing_ok
         /\ ~HasResource(Store, Strip(last.path))
         /\ last.ret = (BitSet(last.mask) \subseteq {VISIT, AVAILABLE})

-----------------------------------------------------------------------------
(* The resource tree.                                                       *)

\* the id without its last segment, None for an id of one segment
ParentIdOf(id) == IF NODE_SEPARATOR \in Range(id) THEN RPartitionHead(id) ELSE None

Depth(id) == Cardinality({n \in 1..Len(id) : id[n] = NODE_SEPARATOR}) + 1

\* chain goes from r to a root, parent by parent
ChainOf(chain, r) ==
    /\ Len(chain) = Depth(r.id)
    /\ chain[1] = r
    /\ \A n \in 1..(Len(chain) - 1) : chain[n + 1].id = chain[n].parent_id
    /\ chain[Len(chain)].parent_id = None

\* every resource's parent_id is the id without its last segment and names a
\* resource of the store, no id is held twice, and get_resource_chain goes from
\* the resource to its root
C20_Forest ==
    \A i \in 1..Len(resources) :
      /\ resources[i].parent_id = ParentIdOf(resources[i].id)
      /\ resources[i].parent_id # None => HasResource(Store, resources[i].parent_id)
      /\ \A j \in 1..Len(resources) : resources[j].id = resources[i].id => j = i
      /\ ChainOf(get_resource_chain(Store, resources[i].id), resources[i])

\* the resources the last call made
Created == {r \in Range(resources) : ~HasResource(Before, r.id)}

\* define made the terminal node with the caller's mode, OVERRIDE when none was
\* given, and every other node it made as a directory that merges
C20_DefineMakes ==
    last.op = "define" =>
      /\ HasResource(Store, DefinedId(last.path))
      /\ \A r \in Created :
           IF r.id = DefinedId(last.path)
           THEN r.inherit_mode = (IF last.mode = NoMode THEN "OVERRIDE" ELSE last.mode)
           ELSE /\ r.type = "DIR"
                /\ r.inherit_mode = "MERGE"
                /\ r \in Range(get_resource_chain(Store, DefinedId(last.path)))

\* C20: after any sequence of define, assign, depend, suset and set calls the
\* parent_id of every resource is absent or the id of an existing resource,
\* the resource's own id without its last segment, so that the resources form
\* a forest and get_resource_chain ends, giving self, parent, up to the root;
\* and define makes each missing ancestor a DIR with mode MERGE and a missing
\* terminal node with the caller's mode, OVERRIDE when none is given.
C20_ResourceForest == C20_Forest /\ C20_DefineMakes

\* define('a.b.c') on a store without a made the three nodes
C20_Witness ==
    /\ last.op = "define"
    /\ last.path = PC
    /\ Cardinality(Created) = 3
    /\ Len(get_resource_chain(Store, PC)) = 3

-----------------------------------------------------------------------------
(* set with a pattern.                                                      *)

\* the resources the pattern of the last call selects in the store it found
MatchedIds ==
    IF last.pattern # <<>>
    THEN {r.id : r \in Range(glob_resources(Before, last.pattern))}
    ELSE Matched

\* a pattern set that returned went through every match, writing where the
\* executor holds MODIFY and nowhere else
C21_ProcessesAll ==
    (IsSetPattern /\ last.err = "") =>
      /\ {last.trace[n].id : n \in 1..Len(last.trace)} = MatchedIds
      /\ \A n \in 1..Len(last.trace) :
           last.trace[n].written <=> HasAll(last.trace[n].mask, MODIFY)

\* a pattern set that raised has changed no ACL entry
C21_FailsBeforeAnyWrite ==
    (IsSetPattern /\ last.err # "") => acls = Before.acls

\* C21: a set with a pattern never stops partway through its matches: it fails
\* before any ACL has been changed, or it goes through every matched resource,
\* updating where the executor has MODIFY and skipping the others silently; it
\* never raises after some matched resources have been updated.
C21_NeverPartway == C21_ProcessesAll /\ C21_FailsBeforeAnyWrite

-----------------------------------------------------------------------------
(* suset with a glob pattern.                                               *)

\* a pattern as a list of tokens: any run of characters, any one character,
\* or one character of a set
RECURSIVE Tokens(_)
Tokens(pat) ==
    IF pat = <<>> THEN <<>>
    ELSE IF Head(pat) = "*" THEN <<[kind |-> "run", chars |-> {}]>> \o Tokens(Tail(pat))
    ELSE IF Head(pat) = "?" THEN <<[kind |-> "one", chars |-> {}]>> \o Tokens(Tail(pat))
    ELSE IF Head(pat) = "[" /\ \E j \in 3..Len(pat) : pat[j] = "]"
    THEN LET j == CHOOSE j \in 3..Len(pat) :
                     pat[j] = "]" /\ \A k \in 3..(j - 1) : pat[k] # "]"
         IN <<[kind |-> "in", chars |-> {pat[n] : n \in 2..(j - 1)}]>>
              \o Tokens(SubSeq(pat, j + 1, Len(pat)))
    ELSE <<[kind |-> "in", chars |-> {Head(pat)}]>> \o Tokens(Tail(pat))

Fits(c, tok) == tok.kind = "one" \/ (tok.kind = "in" /\ c \in tok.chars)

\* name matches a pattern with at most one '*': the tokens before the '*' fit
\* the first characters, those after it the last ones, and the '*' takes the
\* characters between, separators included
ShellMatches(name, pat) ==
    LET toks == Tokens(pat)
        runs == {n \in 1..Len(toks) : toks[n].kind = "run"}
    IN IF runs = {}
       THEN Len(name) = Len(toks) /\ \A n \in 1..Len(toks) : Fits(name[n], toks[n])
       ELSE LET k == CHOOSE n \in runs : TRUE
                post == Len(toks) - k
            IN /\ Len(name) >= (k - 1) + post
               /\ \A n \in 1..(k - 1) : Fits(name[n], toks[n])
               /\ \A n \in 1..post : Fits(name[Len(name) - post + n], toks[k + n])

IsSusetGlob == last.op = "suset" /\ last.pattern # <<>>

\* the existing resources whose id the pattern of the last call matches
ShellMatched ==
    {r \in ResourceIds(Before) : ShellMatches(Strip(r), Strip(last.pattern))}

\* C22: suset with a glob pattern applies the update, the creation or the
\* update of the subject's primary ACL, to exactly the existing resources whose
\* full id matches the pattern shell-style, '*' spanning separators, so that
\* 'a.*' selects every strict descendant of a and not a itself; it creates no
\* resource and changes no ACL entry on a resource that does not match.
C22_GlobSuset ==
    IsSusetGlob =>
      /\ last.err = ""
      /\ WrittenIds = ShellMatched
      /\ \A r \in ShellMatched :
           SideOf(Store, last.target, r, DenySide)
             = ChmodOf(SideOf(Before, last.target, r, DenySide), last.mask, last.mode)
      /\ last.pattern = <<"a", ".", "*">> =>
           ShellMatched = {r \in ResourceIds(Before) : PA \in StrictAncestors(Before, r)}
      /\ [n \in 1..Len(resources) |-> resources[n].id]
           = [n \in 1..Len(Before.resources) |-> Before.resources[n].id]
      /\ \A n \in 1..Len(acls) :
           IF n <= Len(Before.acls) /\ Before.acls[n].resource_id \notin ShellMatched
           THEN acls[n] = Before.acls[n]
           ELSE acls[n].resource_id \in ShellMatched
      /\ Len(acls) >= Len(Before.acls)

\* suset(g, 'a.*', 5, '+') on the tree a, a.b, a.b.c beside q: g's entry on a.b
\* went from 2 to 7, one was made on a.b.c, none on a or q
C22_Witness ==
    /\ IsSusetGlob /\ last.pattern = <<"a", ".", "*">> /\ last.mode = "+"
    /\ ResourceIds(Before) = {PA, PB, PC, PQ}
    /\ SideOf(Before, G, PB, FALSE) = 2
    /\ SideOf(Store, G, PB, FALSE) = 7
    /\ SideOf(Store, G, PC, FALSE) = 5
    /\ get_primary_acl(Store, G, PA) = 0
    /\ get_primary_acl(Store, G, PQ) = 0

-----------------------------------------------------------------------------
(* Permission expressions.                                                  *)

\* flags of the grammar: a digit 0..7, '*', or glyphs among v m a r w x -
GrammarFlags(f) ==
    \/ Len(f) = 1 /\ f[1] \in {"*", "0", "1", "2", "3", "4", "5", "6", "7"}
    \/ Len(f) >= 1 /\ \A i \in 1..Len(f) : f[i] \in {"v", "m", "a", "r", "w", "x", "-"}

\* e is [target][op]flags with t characters of target and o of op
GrammarSplit(e, t, o) ==
    /\ Len(e) > t + o
    /\ t = 1 => e[1] \in {"a", "d"}
    /\ o = 1 => e[t + 1] \in {"=", "+", "-"}
    /\ GrammarFlags(SubSeq(e, t + o + 1, Len(e)))

InGrammar(e) == \E t \in 0..1, o \in 0..1 : GrammarSplit(e, t, o)

\* e is flags and nothing else: no reading of it has a target or an op
OnlyFlags(e) ==
    /\ GrammarSplit(e, 0, 0)
    /\ \A t \in 0..1, o \in 0..1 : GrammarSplit(e, t, o) => t = 0 /\ o = 0

\* the bits the glyphs of e name
NamedBits(e) ==
    MaskOf({b \in {AVAILABLE, MODIFY, VISIT} :
              \E i \in 1..Len(e) :
                 \/ b = AVAILABLE /\ e[i] \in {"a", "x"}
                 \/ b = MODIFY /\ e[i] \in {"m", "w"}
                 \/ b = VISIT /\ e[i] \in {"v", "r"}})

IsParse == last.op = "parse"

\* every expression of the grammar is accepted
C23_Accepts == (IsParse /\ InGrammar(last.path)) => last.err = ""

\* an accepted expression that is flags only comes back with '=' and not deny
C23_NoPrefix ==
    (IsParse /\ OnlyFlags(last.path) /\ last.err = "") =>
      last.mode = "=" /\ last.deny = FALSE

\* the rendering of a mask parses to the mask
C23_RoundTrip ==
    \A m \in Masks :
       (IsParse /\ last.path = Rendering(m)) =>
         last.err = "" /\ last.ret = m /\ last.mode = "=" /\ last.deny = FALSE

\* an accepted glyph sequence that is flags only gives the union of its bits
C23_Union ==
    (IsParse /\ OnlyFlags(last.path) /\ last.err = ""
       /\ \A i \in 1..Len(last.path) :
             last.path[i] \in {"v", "m", "a", "r", "w", "x", "-"}) =>
      last.ret = NamedBits(last.path)

\* C23: Permission.parse accepts every expression [target][op]flags, flags
\* being a digit 0..7, '*' or a sequence of the glyphs v m a r w x -, and
\* returns the mask with op '=' and deny false when no prefix is given; the
\* three-character rendering of every mask m parses to (m, '=', false), and a
\* glyph sequence without prefix gives the union of the bits it names.
C23_ParseGrammar == C23_Accepts /\ C23_NoPrefix /\ C23_RoundTrip /\ C23_Union

-----------------------------------------------------------------------------
(* C24: the track ladder.                                                   *)

\* the levels (from 0) whose role the user holds directly in st
HeldLevels(st) ==
    {i \in 0..(Len(TrackLevels) - 1) : TrackLevels[i + 1] \in Range(st.users[U.id])}

\* the lowest level held in st, NoLevel when none is
LowestHeld(st) ==
    IF HeldLevels(st) = {} THEN NoLevel
    ELSE CHOOSE i \in HeldLevels(st) : \A j \in HeldLevels(st) : i <= j

TopLevel == Len(TrackLevels) - 1

IsTrackCall == last.op \in {"set_user_track_level", "promote_track", "demote_track"}

\* the level the last track call is to leave the user on
LevelExpected ==
    CASE last.op = "set_user_track_level" ->
           IF last.mask > TopLevel THEN LowestHeld(Before)
           ELSE IF last.mask < 0 THEN NoLevel ELSE last.mask
      [] last.op = "promote_track" ->
           IF LowestHeld(Before) = NoLevel THEN 0
           ELSE Min(LowestHeld(Before) + last.mask, TopLevel)
      [] last.op = "demote_track" ->
           IF LowestHeld(Before) = NoLevel THEN NoLevel
           ELSE Max(LowestHeld(Before) - last.mask, 0)
      [] OTHER -> NoLevel

\* the last track call left the user's roles as they were
C24_RolesKept == Store.users[U.id] = Before.users[U.id]

\* a user holding at most one track role holds at most one after a track
\* call, and loses the last one only to a negative level index
C24_AtMostOne ==
    (IsTrackCall /\ Cardinality(HeldLevels(Before)) <= 1) =>
      /\ Cardinality(HeldLevels(Store)) <= 1
      /\ (HeldLevels(Store) = {} /\ HeldLevels(Before) # {}) =>
           (last.op = "set_user_track_level" /\ last.mask < 0)

\* promote_track and demote_track move as the ladder says and return the level
C24_Moves ==
    (last.op \in {"promote_track", "demote_track"}
       /\ Cardinality(HeldLevels(Before)) <= 1) =>
      /\ get_user_track_level(Store, U.id, TrackLevels) = LevelExpected
      /\ last.ret = LevelExpected
      /\ (last.op = "demote_track" /\ LowestHeld(Before) = NoLevel) => C24_RolesKept

\* get_user_track_level gives the level a successful set_user_track_level set
C24_LevelSet ==
    (last.op = "set_user_track_level" /\ last.err = "") =>
      /\ get_user_track_level(Store, U.id, TrackLevels) = LevelExpected
      /\ HeldLevels(Store) = (IF last.mask < 0 THEN {} ELSE {last.mask})

\* a level index past the top fails with ValueError and changes no role
C24_OutOfRange ==
    (last.op = "set_user_track_level") =>
      /\ (last.mask > TopLevel) <=> (last.err = "ValueError")
      /\ (last.mask > TopLevel) => C24_RolesKept

\* C24: after set_user_track_level, promote_track and demote_track calls on a
\* track with distinct level roles the user holds at most one of the track's
\* roles, none only after a negative level index; promote_track from level i
\* by step moves to min(i + step, top) and from no level to level 0,
\* demote_track moves to max(i - step, 0) and does nothing for a user on no
\* level, get_user_track_level returns the level just set, and an out-of-range
\* level index fails without changing the user's roles.
C24_TrackLadder == C24_AtMostOne /\ C24_Moves /\ C24_LevelSet /\ C24_OutOfRange

\* a promotion past the top has been clamped, from a user holding one level
C24_Witness ==
    /\ last.op = "promote_track"
    /\ HeldLevels(Before) = {0}
    /\ last.mask = 3
    /\ HeldLevels(Store) = {TopLevel}

-----------------------------------------------------------------------------
(* C25: dependencies and the strategy chain.                                *)

\* st with no strategy registered
NoStrategies(st) == [st EXCEPT !.strategies = <<>>]

\* the static mask of the subject of the last call where no strategy runs, for
\* a dependency subject either
PlainStaticOfLast ==
    static_permissions(NoStrategies(Before), last.subject, Strip(last.path),
                       last.ctx).mask

\* C25: whether a dependency is met is decided from the static mask of the
\* dependency subject on the dependency resource; the strategy chain runs
\* once, for the top-level user on the requested resource, and no strategy
\* changes the outcome of a dependency check: the mask returned is the
\* strategies applied to the mask a store without strategies gives.
C25_DependenciesStatic ==
    IsMaskCall =>
      last.ret = IF last.subject.type = USER
                 THEN InRegistrationOrder(Before, 1, Strip(last.path), last.ctx,
                                          PlainStaticOfLast)
                 ELSE PlainStaticOfLast

-----------------------------------------------------------------------------
(* C26: ACL operations and the resource attributes.                         *)

\* every resource of the table res is in the table res2 with the inherit_mode
\* and the type it has in res
AttributesKept(res, res2) ==
    \A i \in 1..Len(res) :
       \E j \in 1..Len(res2) :
          /\ res2[j].id = res[i].id
          /\ res2[j].inherit_mode = res[i].inherit_mode
          /\ res2[j].type = res[i].type

\* C26: on resources that already exist assign, suset, set and depend never
\* change the inherit_mode or the type of a resource, the target, an ancestor
\* or any other: a step that is no define call and creates no resource keeps
\* both for every resource.
C26_AclOperationsKeepModes ==
    [][(last'.op # "define" /\ Len(resources') = Len(resources)) =>
         AttributesKept(resources, resources')]_vars

-----------------------------------------------------------------------------
(* C27: the two flavours side by side.                                      *)

OtherFlavour(flavour) == IF flavour = "sync" THEN "async" ELSE "sync"

\* the store the last call was made on, in the hands of the other flavour
BeforeForOther == [last.before EXCEPT !.flavour = OtherFlavour(last.flavour)]

\* the last call has arguments both flavours accept: a single path, and the
\* allow side
BothAccept ==
    /\ last.op \in {"get_effective_permissions", "suget", "test", "get", "suset", "set"}
    /\ last.path # <<>>
    /\ ~last.deny

\* the last call as the other flavour ends it on the same store
Twin ==
    CASE last.op = "get_effective_permissions" ->
           SugetDone(BeforeForOther,
                     get_effective_permissions(BeforeForOther, last.subject.id,
                                               last.path, last.ctx))
      [] last.op = "suget" ->
           suget(BeforeForOther, last.subject, last.path, last.missing_ok, last.ctx)
      [] last.op = "test" ->
           test(BeforeForOther, last.subject, last.path, last.mask, last.missing_ok,
                last.ctx)
      [] last.op = "get" ->
           get(BeforeForOther, last.subject, last.path, last.missing_ok, last.ctx)
      [] last.op = "suset" ->
           suset(BeforeForOther, last.subject, last.path, last.mask, last.mode,
                 last.deny, last.missing_ok)
      [] last.op = "set" ->
           set(BeforeForOther, last.subject, last.target, last.path, last.mask,
               last.mode, last.deny, last.missing_ok, last.ctx)

\* C27: the synchronous and the task-based flavour are observationally
\* equivalent: started from the same store the same call returns the same mask
\* or None, or fails with the same kind of error, and leaves the same
\* resources and ACL entries behind.
C27_FlavoursAgree ==
    BothAccept =>
      /\ Twin.err = last.err
      /\ Twin.ret = last.ret
      /\ Twin.st.resources = resources
      /\ Twin.st.acls = acls

-----------------------------------------------------------------------------
(* C28: the order of the dependencies of an entry.                          *)

\* the ACL tables that differ from acls in the order of the dependencies of
\* the entries from the i-th on
RECURSIVE DependenciesReorderedFrom(_, _)
DependenciesReorderedFrom(table, i) ==
    IF i > Len(table) THEN {table}
    ELSE UNION {DependenciesReorderedFrom([table EXCEPT ![i].dependencies = q], i + 1) :
                  q \in Reorderings(table[i].dependencies)}

\* the stores that differ from st in the order of the dependencies lists only
DependenciesReordered(st) ==
    {[st EXCEPT !.acls = table] : table \in DependenciesReorderedFrom(st.acls, 1)}

\* the evaluation of the last call on st
EvaluatedOn(st) ==
    get_effective_permissions(st, last.subject.id, last.path, last.ctx)

\* C28 as stated: the returned mask, or the DependencyCycle error, is the same
\* whatever the order in which the dependencies of an ACL entry are listed.
C28_DependencyOrderFree ==
    IsEvaluate =>
      \A st \in DependenciesReordered(Before) :
         Outcome(EvaluatedOn(st)) = <<last.err, last.ret>>

\* C28, amended: the orders of the dependencies lists in which an evaluation
\* returns a mask return the same mask; whether it raises instead depends on
\* the order.
C28_MaskOrderFree ==
    (IsEvaluate /\ last.err = "") =>
      \A st \in DependenciesReordered(Before) :
         EvaluatedOn(st).err = "" => EvaluatedOn(st).mask = last.ret

\* an entry of u on a.b with a met and an unmet dependency, the met one listed
\* first: the entry is left out in either order
C28_Witness ==
    /\ IsEvaluate /\ last.err = "" /\ last.path = PB /\ last.ret = 0
    /\ \E i \in 1..Len(last.before.acls) :
         /\ last.before.acls[i].subject_id = "u"
         /\ last.before.acls[i].resource_id = PB
         /\ Len(last.before.acls[i].dependencies) = 2
         /\ DepMet(Before, last.before.acls[i].dependencies[1])
         /\ ~DepMet(Before, last.before.acls[i].dependencies[2])
    /\ Cardinality(DependenciesReordered(Before)) = 2

-----------------------------------------------------------------------------
(* C29: the evaluation ends.                                                *)

\* C29: get_effective_permissions ends with a mask or with DependencyCycle,
\* also when a registered strategy calls the lookup callback, from the
\* strategies run while a dependency is resolved included: the evaluator is
\* never re-entered without bound.
C29_EvaluationEnds ==
    IsEvaluate => last.err \in {"", "DependencyCycle"}

-----------------------------------------------------------------------------
(* C30: the cache of one evaluation.                                        *)

\* the base computation of the last evaluation: the mask and the cache it
\* hands to the strategies
BaseOfLast ==
    calc_permissions_for_subject(Before, USER, last.subject.id, last.path, last.ctx,
                                 <<>>, <<>>, RecursionLimit)

\* the cache as the i-th strategy of the last evaluation finds it
CacheAt(i) ==
    apply_strategies([Before EXCEPT !.strategies = SubSeq(@, 1, i - 1)],
                     last.subject.id, last.path, last.ctx, BaseOfLast.mask,
                     BaseOfLast.cache, RecursionLimit).cache

\* the key and the context of the lookup the strategy kind makes
LookupKey == CacheKey(ROLE, "g", last.path)

LookupContext(kind) == IF kind = "as_role_g_plain" THEN "none" ELSE last.ctx

\* the computation of key on the store of the last evaluation in context ctx,
\* with a visited list and a cache of its own
Uncached(key, ctx) ==
    calc_permissions_for_subject(Before, key[1], key[2], key[3], ctx, <<>>, <<>>,
                                 RecursionLimit)

\* what a lookup of a strategy is given from the cache is what the key
\* computes to in the context of the lookup
C30_LookupsTransparent ==
    (IsEvaluate /\ last.err = "") =>
      \A i \in 1..Len(Before.strategies) :
         (Before.strategies[i] \in {"as_role_g", "as_role_g_plain"}
            /\ LookupKey \in DOMAIN CacheAt(i)) =>
           /\ Uncached(LookupKey, LookupContext(Before.strategies[i])).err = ""
           /\ CacheAt(i)[LookupKey]
                = Uncached(LookupKey, LookupContext(Before.strategies[i])).mask

\* what the base computation leaves in the cache is what each key computes to
\* in the context of the evaluation
C30_DependenciesTransparent ==
    (IsEvaluate /\ last.err = "") =>
      \A key \in DOMAIN BaseOfLast.cache :
         /\ Uncached(key, last.ctx).err = ""
         /\ BaseOfLast.cache[key] = Uncached(key, last.ctx).mask

\* C30: memoisation is transparent: every value returned from the cache for a
\* key, to a strategy's lookup made with a different context included, is the
\* mask an uncached computation of that key with the same store and the same
\* context returns.
C30_MemoisationTransparent == C30_LookupsTransparent /\ C30_DependenciesTransparent

====
